---- MODULE Spec2Model ----
(***************************************************************************)
(* A model of the WMS-to-MQTT bridge, warema-bridge/srv/index.js: the      *)
(* device registry, the LED command lock, the rain hysteresis and the      *)
(* handlers of the stick callback and of the MQTT client.                  *)
(*                                                                         *)
(* Every handler runs to completion (node's event loop), so one handler is *)
(* one action.  Date.now() is the variable now, in milliseconds.           *)
(* A JavaScript value that may be undefined is a sequence of length <= 1:  *)
(* <<>> is undefined (or NaN for a number), <<v>> is the value v.          *)
(***************************************************************************)
EXTENDS Integers, Sequences, FiniteSets, TLC

VARIABLES
  now,                  \* Date.now()
  devices,              \* const devices = {}: snr -> device object
  ledStateCache,        \* let ledStateCache = {}: snr -> last nonzero brightness
  ledStateFile,         \* content of led_state.json
  discoveryCache,       \* topic -> payload
  rawMessageCache,      \* `${snr}_${stickCmd}` -> { timestamp }
  weatherStats,         \* snr -> { wind, temp, lumen, lastPublish }
  rainState,            \* snr -> { state, lastChange }
  connected,            \* client.connected
  mqttReady, stickReady, systemReady, shuttingDown,
  weatherInterval,      \* the setInterval handle: TRUE when it is not null
  timers,               \* the number of interval timers set and not cleared
  lastWeatherBroadcast, \* time of the last weather broadcast
  stickWeather,         \* stickUsb.getLastWeatherBroadcast()
  retained,             \* the broker's retained value of every topic
  pub,                  \* the client.publish calls of the last handler, in order
  hw,                   \* the stick commands of the last handler, in order
  rainObs,              \* history: the rain observations processed so far
  ev                    \* the last event dispatched, with the state it met

vars == <<now, devices, ledStateCache, ledStateFile, discoveryCache,
          rawMessageCache, weatherStats, rainState, connected, mqttReady,
          stickReady, systemReady, shuttingDown, weatherInterval, timers,
          lastWeatherBroadcast, stickWeather, retained, pub, hw, rainObs, ev>>

(***************************************************************************)
(* Bounds of the model.                                                    *)
(***************************************************************************)
Epoch == 100000       \* Date.now() when the process starts
TickMs == 5000        \* the clock step of the light specification
LightTicks == 4       \* the light specification runs this many steps
RainTickMs == 5000    \* the clock step of the rain specification
RainTicks == 13       \* the rain specification runs this many steps
DedupTickMs == 500    \* the clock step of the spacing specification
DedupTicks == 4       \* the spacing specification runs this many steps
WeatherTickMs == 30000 \* the clock step of the weather specification
WeatherTicks == 2     \* the weather specification runs this many steps
EmaTickMs == 1000     \* the clock step of the smoothing specification
EmaTicks == 1         \* the smoothing specification runs this many steps
QuantizeBelow == 3    \* brightness inputs from this far below 0 ...
QuantizeAbove == 3    \* ... to this far above 100

Snrs == {"1001", "2002", "3003"}
LedSnr == "1001"
WeatherSnr == "2002"
IgnoredSnr == "3003"

(***************************************************************************)
(* Program constants.                                                      *)
(***************************************************************************)
WAREMA_LED_STEPS == <<100, 89, 78, 67, 56, 45, 34, 23, 12, 1>>
COMMAND_TIMEOUT == 15000
PUBLISH_DEDUP_MS == 2000
DEFAULT_ON_BRIGHTNESS == 100
RAIN_ON_DELAY == 10000
RAIN_OFF_DELAY == 30000
WEATHER_PUBLISH_INTERVAL_MS == 60000
MIN_RAW_SPACING == 1000
RAW_CACHE_HORIZON == 10000
pollingInterval == 30000

(***************************************************************************)
(* JavaScript values.                                                      *)
(***************************************************************************)
None == <<>>
Some(v) == <<v>>
OrElse(o, d) == IF o = None THEN d ELSE o[1]      \* o ?? d
Max(a, b) == IF a > b THEN a ELSE b
Min(a, b) == IF a < b THEN a ELSE b
Abs(x) == IF x < 0 THEN 0 - x ELSE x

NaN == <<>>
Num(x) == <<x>>
IsNaN(v) == v = NaN
\* Math.abs(v - s): NaN when v is
JsAbsDiff(v, s) == IF IsNaN(v) THEN NaN ELSE Num(Abs(v[1] - s))
\* a < b: false when either is NaN
JsLess(a, b) == ~IsNaN(a) /\ ~IsNaN(b) /\ a[1] < b[1]
\* Math.max(0, Math.min(100, v)): NaN when v is
JsClamp(v) == IF IsNaN(v) THEN NaN ELSE Num(Max(0, Min(100, v[1])))

\* A payload is a sequence of characters.
IsDigit(c) == c \in {"0", "1", "2", "3", "4", "5", "6", "7", "8", "9"}
DigitVal(c) ==
  CASE c = "0" -> 0 [] c = "1" -> 1 [] c = "2" -> 2 [] c = "3" -> 3
    [] c = "4" -> 4 [] c = "5" -> 5 [] c = "6" -> 6 [] c = "7" -> 7
    [] c = "8" -> 8 [] c = "9" -> 9

RECURSIVE ParseDigits(_, _, _, _)
\* the digits of s from position i on, up to the first other character
ParseDigits(s, i, acc, seen) ==
  IF i <= Len(s) /\ IsDigit(s[i])
  THEN ParseDigits(s, i + 1, 10 * acc + DigitVal(s[i]), TRUE)
  ELSE IF seen THEN Num(acc) ELSE NaN

RECURSIVE SkipSpaces(_, _)
SkipSpaces(s, i) == IF i <= Len(s) /\ s[i] = " " THEN SkipSpaces(s, i + 1) ELSE i

\* parseInt(s, 10)
parseInt(s) ==
  LET i == SkipSpaces(s, 1)
  IN IF i <= Len(s) /\ s[i] = "-"
     THEN LET m == ParseDigits(s, i + 1, 0, FALSE)
          IN IF IsNaN(m) THEN NaN ELSE Num(0 - m[1])
     ELSE IF i <= Len(s) /\ s[i] = "+"
     THEN ParseDigits(s, i + 1, 0, FALSE)
     ELSE ParseDigits(s, i, 0, FALSE)

UpperChar(c) ==
  CASE c = "o" -> "O" [] c = "n" -> "N" [] c = "f" -> "F" [] OTHER -> c
\* s.toUpperCase()
toUpperCase(s) == [i \in 1..Len(s) |-> UpperChar(s[i])]

(***************************************************************************)
(* Brightness quantization.                                                *)
(***************************************************************************)
RECURSIVE NormalizeFrom(_, _, _, _)
\* the for loop of normalizeWaremaBrightness from step i on
NormalizeFrom(v, i, best, diff) ==
  IF i > Len(WAREMA_LED_STEPS) THEN best
  ELSE LET s == WAREMA_LED_STEPS[i]
           d == JsAbsDiff(v, s)
       IN IF JsLess(d, diff) THEN NormalizeFrom(v, i + 1, s, d)
          ELSE NormalizeFrom(v, i + 1, best, diff)

\* normalizeWaremaBrightness returning the largest step not above v
normalizeWaremaBrightness_Truncating(v) ==
  IF ~IsNaN(v) /\ v[1] <= 0 THEN 0
  ELSE IF IsNaN(v) THEN WAREMA_LED_STEPS[1]
  ELSE CHOOSE s \in {WAREMA_LED_STEPS[i] : i \in 1..Len(WAREMA_LED_STEPS)} :
         /\ s <= v[1]
         /\ \A t \in {WAREMA_LED_STEPS[i] : i \in 1..Len(WAREMA_LED_STEPS)} :
              t <= v[1] => t <= s

normalizeWaremaBrightness(v) ==
  IF ~IsNaN(v) /\ v[1] <= 0 THEN 0
  ELSE NormalizeFrom(v, 1, WAREMA_LED_STEPS[1], JsAbsDiff(v, WAREMA_LED_STEPS[1]))

(***************************************************************************)
(* The registry.                                                           *)
(***************************************************************************)
\* devices[snr] of an snr that is no key of devices
NoDevice ==
  [present |-> FALSE, type |-> "", position |-> None, tilt |-> None,
   lastBrightness |-> None, commandActive |-> FALSE, commandTarget |-> None,
   commandStartTime |-> None, lastPublishedBrightness |-> None,
   lastPublishTimestamp |-> None, lastPosition |-> None]

\* { type: t }
NewDevice(t) == [NoDevice EXCEPT !.present = TRUE, !.type = t]

(***************************************************************************)
(* The state a handler reads and writes, as one record, so that the        *)
(* functions of index.js compose as they do in the code.                   *)
(***************************************************************************)
World ==
  [devices |-> devices, ledStateCache |-> ledStateCache,
   ledStateFile |-> ledStateFile, discoveryCache |-> discoveryCache,
   rawMessageCache |-> rawMessageCache, weatherStats |-> weatherStats,
   rainState |-> rainState, connected |-> connected, mqttReady |-> mqttReady, stickReady |-> stickReady,
   systemReady |-> systemReady, shuttingDown |-> shuttingDown,
   weatherInterval |-> weatherInterval, timers |-> timers,
   lastWeatherBroadcast |-> lastWeatherBroadcast, stickWeather |-> stickWeather,
   retained |-> retained, pub |-> <<>>, hw |-> <<>>]

Commit(w) ==
  /\ devices' = w.devices
  /\ ledStateCache' = w.ledStateCache
  /\ ledStateFile' = w.ledStateFile
  /\ discoveryCache' = w.discoveryCache
  /\ rawMessageCache' = w.rawMessageCache
  /\ weatherStats' = w.weatherStats
  /\ rainState' = w.rainState
  /\ connected' = w.connected
  /\ mqttReady' = w.mqttReady
  /\ stickReady' = w.stickReady
  /\ systemReady' = w.systemReady
  /\ shuttingDown' = w.shuttingDown
  /\ weatherInterval' = w.weatherInterval
  /\ timers' = w.timers
  /\ lastWeatherBroadcast' = w.lastWeatherBroadcast
  /\ stickWeather' = w.stickWeather
  /\ retained' = w.retained
  /\ pub' = w.pub
  /\ hw' = w.hw

Msg(topic, payload, retain) == [topic |-> topic, payload |-> payload, retain |-> retain]

Put(f, k, v) == [x \in DOMAIN f \cup {k} |-> IF x = k THEN v ELSE f[x]]

\* client.publish(topic, payload, { retain }), on a connected client
publish(w, topic, payload, retain) ==
  [w EXCEPT !.pub = Append(@, Msg(topic, payload, retain)),
            !.retained = IF retain /\ w.connected THEN Put(@, topic, payload) ELSE @]

\* a call of a method of stickUsb
StickCmd(cmd, snr, position, tilt) ==
  [cmd |-> cmd, snr |-> snr, position |-> position, tilt |-> tilt]
stick(w, cmd) == [w EXCEPT !.hw = Append(@, cmd)]

BrightnessTopic(snr) == "warema/" \o snr \o "/light/brightness"
LightStateTopic(snr) == "warema/" \o snr \o "/light/state"
AvailabilityTopic(snr) == "warema/" \o snr \o "/availability"
RainTopic(snr) == "warema/" \o snr \o "/rain/state"
BridgeTopic == "warema/bridge/state"

\* Object.keys(devices): integer-like keys come in ascending order
\* the raw command tags of the weather broadcasts
StickCmds == {"7080", "7081"}

SnrOrder == <<"1001", "2002", "3003">>
DeviceKeys(w) == SelectSeq(SnrOrder, LAMBDA s : w.devices[s].present)

ignoredDevices == {"3003"}

(***************************************************************************)
(* LED state.                                                              *)
(***************************************************************************)
ensureLedDevice(w, snr) ==
  [w EXCEPT !.devices[snr] =
     IF @.present THEN [@ EXCEPT !.type = "28"] ELSE NewDevice("28")]

\* fs.writeFileSync(led_state.json, ledStateCache)
saveLedState(w) == [w EXCEPT !.ledStateFile = w.ledStateCache]

\* updateLightState without the repeat window and without the connection test
updateLightState_AlwaysPublish(w, snr, brightness) ==
  LET v == Max(0, Min(100, brightness))
      w1 == ensureLedDevice(w, snr)
      w2 == [w1 EXCEPT !.devices[snr].lastPublishedBrightness = Some(v),
                       !.devices[snr].lastPublishTimestamp = Some(now),
                       !.devices[snr].position = Some(v)]
      w3 == IF v > 0
            THEN saveLedState([w2 EXCEPT !.devices[snr].lastBrightness = Some(v),
                                         !.ledStateCache[snr] = Some(v)])
            ELSE w2
  IN publish(publish(w3, BrightnessTopic(snr), ToString(v), TRUE),
             LightStateTopic(snr), IF v > 0 THEN "ON" ELSE "OFF", TRUE)

updateLightState(w, snr, brightness) ==
  LET v == Max(0, Min(100, brightness))
      w1 == ensureLedDevice(w, snr)
      dev == w1.devices[snr]
  IN IF /\ dev.lastPublishedBrightness = Some(v)
        /\ now - OrElse(dev.lastPublishTimestamp, 0) < PUBLISH_DEDUP_MS
     THEN w1
     ELSE LET w2 == [w1 EXCEPT !.devices[snr].lastPublishedBrightness = Some(v),
                               !.devices[snr].lastPublishTimestamp = Some(now),
                               !.devices[snr].position = Some(v)]
              w3 == IF v > 0
                    THEN saveLedState(
                           [w2 EXCEPT !.devices[snr].lastBrightness = Some(v),
                                      !.ledStateCache[snr] = Some(v)])
                    ELSE w2
          IN IF w.connected
             THEN publish(publish(w3, BrightnessTopic(snr), ToString(v), TRUE),
                          LightStateTopic(snr), IF v > 0 THEN "ON" ELSE "OFF", TRUE)
             ELSE w3

\* restoreLedState that also sends the restored brightness to the stick and
\* takes the command lock
restoreLedState_Commanding(w, snr) ==
  LET dev == w.devices[snr]
  IN IF ~dev.present \/ dev.type # "28" THEN w
     ELSE LET w1 == IF w.ledStateCache[snr] # None
                    THEN [w EXCEPT !.devices[snr].lastBrightness = w.ledStateCache[snr]]
                    ELSE w
          IN IF w1.devices[snr].lastBrightness = None THEN w1
             ELSE LET v == w1.devices[snr].lastBrightness[1]
                      w2 == stick(w1, StickCmd("vnBlindSetPosition", snr, Num(v), Num(0)))
                      w3 == [w2 EXCEPT !.devices[snr].commandActive = TRUE,
                                       !.devices[snr].commandTarget = Some(v),
                                       !.devices[snr].commandStartTime = Some(now)]
                  IN updateLightState(w3, snr, v)

restoreLedState(w, snr) ==
  LET dev == w.devices[snr]
  IN IF ~dev.present \/ dev.type # "28" THEN w
     ELSE LET w1 == IF w.ledStateCache[snr] # None
                    THEN [w EXCEPT !.devices[snr].lastBrightness = w.ledStateCache[snr]]
                    ELSE w
          IN IF w1.devices[snr].lastBrightness = None THEN w1
             ELSE updateLightState(w1, snr, w1.devices[snr].lastBrightness[1])

(***************************************************************************)
(* Device registration.                                                    *)
(***************************************************************************)
DiscoveryComponent(type) ==
  CASE type \in {"20", "21", "25"} -> "cover"
    [] type = "24" -> "switch"
    [] type = "28" -> "light"

DiscoveryTopic(snr, type) ==
  "homeassistant/" \o DiscoveryComponent(type) \o "/" \o snr \o "/" \o snr \o "/config"

\* the discovery payload: its shape is a function of the type and the snr
DiscoveryPayload(snr, type) == "config:" \o type \o ":" \o snr

SensorConfigTopics(snr) ==
  << "homeassistant/sensor/" \o snr \o "/illuminance/config",
     "homeassistant/sensor/" \o snr \o "/temperature/config",
     "homeassistant/sensor/" \o snr \o "/wind/config",
     "homeassistant/binary_sensor/" \o snr \o "/rain/config" >>

RECURSIVE publishAll(_, _, _, _)
\* client.publish of every topic of the sequence, in order
publishAll(w, topics, payload, i) ==
  IF i > Len(topics) THEN w
  ELSE publishAll(publish(w, topics[i], payload, TRUE), topics, payload, i + 1)

\* element = { snr, type }; an snr or type of "" is a missing one
registerDevice(w, element) ==
  LET snr == element.snr
      type == element.type
  IN IF snr = "" \/ type = "" THEN w
     ELSE
       LET isNew == ~w.devices[snr].present
           w0 == [w EXCEPT !.devices[snr] = NewDevice(type)]
       IN CASE type = "63" ->
                 LET w1 == publishAll(w0, SensorConfigTopics(snr),
                                      DiscoveryPayload(snr, type), 1)
                     w2 == IF w.connected
                           THEN publish(w1, AvailabilityTopic(snr), "online", TRUE)
                           ELSE w1
                 IN [w2 EXCEPT !.devices[snr] = NewDevice(type)]
            [] type \in {"07", "09"} -> w0
            [] type \in {"20", "21", "24", "25", "28"} ->
                 IF snr \in ignoredDevices THEN w0
                 ELSE
                   LET w1 == IF isNew THEN stick(w0, StickCmd("vnBlindAdd", snr, None, None))
                             ELSE w0
                       w2 == [w1 EXCEPT !.devices[snr] = NewDevice(type)]
                       w3 == IF w.connected
                             THEN restoreLedState(
                                    publish(w2, AvailabilityTopic(snr), "online", TRUE), snr)
                             ELSE w2
                       w4 == [w3 EXCEPT !.discoveryCache =
                                Put(@, DiscoveryTopic(snr, type), DiscoveryPayload(snr, type))]
                   IN IF w.connected
                      THEN publish(w4, DiscoveryTopic(snr, type),
                                   DiscoveryPayload(snr, type), TRUE)
                      ELSE w4
            [] OTHER -> w0

RECURSIVE registerAll(_, _, _)
\* msg.payload.devices.forEach(element => registerDevice(element))
registerAll(w, elements, i) ==
  IF i > Len(elements) THEN w
  ELSE registerAll(registerDevice(w, elements[i]), elements, i + 1)

(***************************************************************************)
(* Rebind.                                                                 *)
(***************************************************************************)
RECURSIVE syncFrom(_, _, _)
syncFrom(w, keys, i) ==
  IF i > Len(keys) THEN w
  ELSE syncFrom(IF w.devices[keys[i]].type \in {"20", "21", "25", "28"}
                THEN stick(w, StickCmd("vnBlindGetPosition", keys[i], None, None))
                ELSE w,
                keys, i + 1)

syncAllDeviceStates(w) == syncFrom(w, DeviceKeys(w), 1)

RECURSIVE publishDiscovery(_, _)
\* for (const [topic, payload] of discoveryCache.entries()) publish
publishDiscovery(w, topics) ==
  IF topics = {} THEN w
  ELSE LET t == CHOOSE x \in topics : TRUE
       IN publishDiscovery(publish(w, t, w.discoveryCache[t], TRUE), topics \ {t})

RECURSIVE publishAvailability(_, _, _, _)
publishAvailability(w, keys, payload, i) ==
  IF i > Len(keys) THEN w
  ELSE publishAvailability(publish(w, AvailabilityTopic(keys[i]), payload, TRUE),
                           keys, payload, i + 1)

\* rebindAfterMqttConnect announcing the bridge online only when the broker
\* does not hold it online already, offline otherwise
rebindAfterMqttConnect_Toggle(w) ==
  IF ~w.mqttReady \/ w.shuttingDown THEN w
  ELSE LET held == /\ BridgeTopic \in DOMAIN w.retained
                   /\ w.retained[BridgeTopic] = "online"
           w1 == publishDiscovery(w, DOMAIN w.discoveryCache)
           w2 == publish(w1, BridgeTopic, IF held THEN "offline" ELSE "online", TRUE)
           w3 == publishAvailability(w2, DeviceKeys(w2), "online", 1)
       IN syncAllDeviceStates(w3)

\* rebindAfterMqttConnect with the availabilities before the discovery
rebindAfterMqttConnect_AvailabilityFirst(w) ==
  IF ~w.mqttReady \/ w.shuttingDown THEN w
  ELSE LET w1 == publishAvailability(w, DeviceKeys(w), "online", 1)
           w2 == publish(w1, BridgeTopic, "online", TRUE)
           w3 == publishDiscovery(w2, DOMAIN w2.discoveryCache)
       IN syncAllDeviceStates(w3)

rebindAfterMqttConnect(w) ==
  IF ~w.mqttReady \/ w.shuttingDown THEN w
  ELSE LET w1 == publishDiscovery(w, DOMAIN w.discoveryCache)
           w2 == publish(w1, BridgeTopic, "online", TRUE)
           w3 == publishAvailability(w2, DeviceKeys(w2), "online", 1)
       IN syncAllDeviceStates(w3)

\* trySystemReady without the latch
trySystemReady_NoLatch(w) ==
  IF w.mqttReady /\ w.stickReady
  THEN rebindAfterMqttConnect([w EXCEPT !.systemReady = TRUE])
  ELSE w

trySystemReady(w) ==
  IF w.mqttReady /\ w.stickReady /\ ~w.systemReady
  THEN rebindAfterMqttConnect([w EXCEPT !.systemReady = TRUE])
  ELSE w

(***************************************************************************)
(* Weather: raw-message dedup, EMA, rain hysteresis.                       *)
(***************************************************************************)
\* isDuplicateRawMessage that also restarts the spacing at a duplicate
isDuplicateRawMessage_Restart(w, stickCmd, snr) ==
  LET messageKey == snr \o "_" \o stickCmd
      cache == w.rawMessageCache
  IN IF messageKey \in DOMAIN cache /\ (now - cache[messageKey]) < MIN_RAW_SPACING
     THEN [dup |-> TRUE, w |-> [w EXCEPT !.rawMessageCache = Put(cache, messageKey, now)]]
     ELSE LET c1 == Put(cache, messageKey, now)
              keep == {k \in DOMAIN c1 : ~((now - c1[k]) > RAW_CACHE_HORIZON)}
          IN [dup |-> FALSE,
              w |-> [w EXCEPT !.rawMessageCache = [k \in keep |-> c1[k]]]]

\* isDuplicateRawMessage: the verdict and the world it leaves
isDuplicateRawMessage(w, stickCmd, snr) ==
  LET messageKey == snr \o "_" \o stickCmd
      cache == w.rawMessageCache
  IN IF messageKey \in DOMAIN cache /\ (now - cache[messageKey]) < MIN_RAW_SPACING
     THEN [dup |-> TRUE, w |-> w]
     ELSE LET c1 == Put(cache, messageKey, now)
              keep == {k \in DOMAIN c1 : ~((now - c1[k]) > RAW_CACHE_HORIZON)}
          IN [dup |-> FALSE,
              w |-> [w EXCEPT !.rawMessageCache = [k \in keep |-> c1[k]]]]

\* A smoothed value is the fraction n / d, d a power of 5.
Frac(n, d) == [n |-> n, d |-> d]
RECURSIVE Reduce5(_)
Reduce5(q) == IF q.d > 1 /\ q.n % 5 = 0 THEN Reduce5(Frac(q.n \div 5, q.d \div 5)) ELSE q

\* updateEMA damping the first sample as if the old value were 0
updateEMA_DampedFirst(oldValue, newValue) ==
  LET o == IF oldValue = None THEN Frac(0, 1) ELSE oldValue[1]
  IN Some(Reduce5(Frac(5 * o.n + (newValue * o.d - o.n), 5 * o.d)))

\* updateEMA taking an old value of 0 for no value
updateEMA_ZeroIsFresh(oldValue, newValue) ==
  IF oldValue = None \/ oldValue[1].n = 0 THEN Some(Frac(newValue, 1))
  ELSE LET o == oldValue[1]
       IN Some(Reduce5(Frac(5 * o.n + (newValue * o.d - o.n), 5 * o.d)))

\* WEATHER_EMA_ALPHA = 0.2: oldValue + 0.2 * (newValue - oldValue)
updateEMA(oldValue, newValue) ==
  IF oldValue = None THEN Some(Frac(newValue, 1))
  ELSE LET o == oldValue[1]
       IN Some(Reduce5(Frac(5 * o.n + (newValue * o.d - o.n), 5 * o.d)))

\* Math.round(q): to the nearest integer, a half goes up
MathRound(q) == (2 * q.n + q.d) \div (2 * q.d)

\* q.toFixed(1)
toFixed1(q) ==
  LET neg == q.n < 0
      a == Abs(q.n)
      tenths == (20 * a + q.d) \div (2 * q.d)
      body == ToString(tenths \div 10) \o "." \o ToString(tenths % 10)
  IN IF neg /\ tenths > 0 THEN "-" \o body ELSE body

NoStats == [present |-> FALSE, wind |-> None, temp |-> None, lumen |-> None,
            lastPublish |-> 0]

\* updateWeatherEMA without the publish interval
updateWeatherEMA_NoGate(w, snr, data) ==
  LET e0 == IF w.weatherStats[snr].present THEN w.weatherStats[snr]
            ELSE [NoStats EXCEPT !.present = TRUE]
      e1 == [e0 EXCEPT
               !.wind = IF data.wind # None THEN updateEMA(@, data.wind[1]) ELSE @,
               !.temp = IF data.temp # None THEN updateEMA(@, data.temp[1]) ELSE @,
               !.lumen = IF data.lumen # None THEN updateEMA(@, data.lumen[1]) ELSE @]
      w1 == [w EXCEPT !.weatherStats[snr] = e1]
  IN IF ~w.connected THEN w1
     ELSE
       LET p1 == IF e1.wind # None
                 THEN publish(w1, "warema/" \o snr \o "/wind/state",
                              toFixed1(e1.wind[1]), TRUE)
                 ELSE w1
           p2 == IF e1.temp # None
                 THEN publish(p1, "warema/" \o snr \o "/temperature/state",
                              toFixed1(e1.temp[1]), TRUE)
                 ELSE p1
           p3 == IF e1.lumen # None
                 THEN publish(p2, "warema/" \o snr \o "/illuminance/state",
                              ToString(MathRound(e1.lumen[1])), TRUE)
                 ELSE p2
       IN [p3 EXCEPT !.weatherStats[snr].lastPublish = now]

\* updateWeatherEMA that stamps lastPublish whenever the interval has passed,
\* connected or not
updateWeatherEMA_StampOffline(w, snr, data) ==
  LET e0 == IF w.weatherStats[snr].present THEN w.weatherStats[snr]
            ELSE [NoStats EXCEPT !.present = TRUE]
      e1 == [e0 EXCEPT
               !.wind = IF data.wind # None THEN updateEMA(@, data.wind[1]) ELSE @,
               !.temp = IF data.temp # None THEN updateEMA(@, data.temp[1]) ELSE @,
               !.lumen = IF data.lumen # None THEN updateEMA(@, data.lumen[1]) ELSE @]
      w1 == [w EXCEPT !.weatherStats[snr] = e1]
  IN IF (now - e1.lastPublish) < WEATHER_PUBLISH_INTERVAL_MS THEN w1
     ELSE IF ~w.connected THEN [w1 EXCEPT !.weatherStats[snr].lastPublish = now]
     ELSE
       LET p1 == IF e1.wind # None
                 THEN publish(w1, "warema/" \o snr \o "/wind/state",
                              toFixed1(e1.wind[1]), TRUE)
                 ELSE w1
           p2 == IF e1.temp # None
                 THEN publish(p1, "warema/" \o snr \o "/temperature/state",
                              toFixed1(e1.temp[1]), TRUE)
                 ELSE p1
           p3 == IF e1.lumen # None
                 THEN publish(p2, "warema/" \o snr \o "/illuminance/state",
                              ToString(MathRound(e1.lumen[1])), TRUE)
                 ELSE p2
       IN [p3 EXCEPT !.weatherStats[snr].lastPublish = now]

updateWeatherEMA(w, snr, data) ==
  LET e0 == IF w.weatherStats[snr].present THEN w.weatherStats[snr]
            ELSE [NoStats EXCEPT !.present = TRUE]
      e1 == [e0 EXCEPT
               !.wind = IF data.wind # None THEN updateEMA(@, data.wind[1]) ELSE @,
               !.temp = IF data.temp # None THEN updateEMA(@, data.temp[1]) ELSE @,
               !.lumen = IF data.lumen # None THEN updateEMA(@, data.lumen[1]) ELSE @]
      w1 == [w EXCEPT !.weatherStats[snr] = e1]
  IN IF (now - e1.lastPublish) < WEATHER_PUBLISH_INTERVAL_MS THEN w1
     ELSE IF ~w.connected THEN w1
     ELSE
       LET p1 == IF e1.wind # None
                 THEN publish(w1, "warema/" \o snr \o "/wind/state",
                              toFixed1(e1.wind[1]), TRUE)
                 ELSE w1
           p2 == IF e1.temp # None
                 THEN publish(p1, "warema/" \o snr \o "/temperature/state",
                              toFixed1(e1.temp[1]), TRUE)
                 ELSE p1
           p3 == IF e1.lumen # None
                 THEN publish(p2, "warema/" \o snr \o "/illuminance/state",
                              ToString(MathRound(e1.lumen[1])), TRUE)
                 ELSE p2
       IN [p3 EXCEPT !.weatherStats[snr].lastPublish = now]

NoRain == [present |-> FALSE, state |-> FALSE, lastChange |-> 0]

RainPayload(isRaining) == IF isRaining THEN "ON" ELSE "OFF"

\* updateRainState that commits the opposite of the first observation and
\* publishes nothing for it
updateRainState_FirstDropped(w, snr, isRaining) ==
  LET entry == w.rainState[snr]
  IN IF ~entry.present
     THEN [w EXCEPT !.rainState[snr] =
             [present |-> TRUE, state |-> ~isRaining, lastChange |-> now]]
     ELSE IF isRaining # entry.state
     THEN LET delay == IF isRaining THEN RAIN_ON_DELAY ELSE RAIN_OFF_DELAY
          IN IF (now - entry.lastChange) >= delay
             THEN LET w1 == [w EXCEPT !.rainState[snr].state = isRaining,
                                      !.rainState[snr].lastChange = now]
                  IN IF w.connected
                     THEN publish(w1, RainTopic(snr), RainPayload(isRaining), TRUE)
                     ELSE w1
             ELSE w
     ELSE [w EXCEPT !.rainState[snr].lastChange = now]

\* updateRainState with the cessation delay in both directions
updateRainState_OneDelay(w, snr, isRaining) ==
  LET entry == w.rainState[snr]
  IN IF ~entry.present
     THEN LET w1 == [w EXCEPT !.rainState[snr] =
                       [present |-> TRUE, state |-> isRaining, lastChange |-> now]]
          IN IF w.connected THEN publish(w1, RainTopic(snr), RainPayload(isRaining), TRUE)
             ELSE w1
     ELSE IF isRaining # entry.state
     THEN IF (now - entry.lastChange) >= RAIN_OFF_DELAY
          THEN LET w1 == [w EXCEPT !.rainState[snr].state = isRaining,
                                   !.rainState[snr].lastChange = now]
               IN IF w.connected
                  THEN publish(w1, RainTopic(snr), RainPayload(isRaining), TRUE)
                  ELSE w1
          ELSE w
     ELSE [w EXCEPT !.rainState[snr].lastChange = now]

updateRainState(w, snr, isRaining) ==
  LET entry == w.rainState[snr]
  IN IF ~entry.present
     THEN LET w1 == [w EXCEPT !.rainState[snr] =
                       [present |-> TRUE, state |-> isRaining, lastChange |-> now]]
          IN IF w.connected THEN publish(w1, RainTopic(snr), RainPayload(isRaining), TRUE)
             ELSE w1
     ELSE IF isRaining # entry.state
     THEN LET delay == IF isRaining THEN RAIN_ON_DELAY ELSE RAIN_OFF_DELAY
          IN IF (now - entry.lastChange) >= delay
             THEN LET w1 == [w EXCEPT !.rainState[snr].state = isRaining,
                                      !.rainState[snr].lastChange = now]
                  IN IF w.connected
                     THEN publish(w1, RainTopic(snr), RainPayload(isRaining), TRUE)
                     ELSE w1
             ELSE w
     ELSE [w EXCEPT !.rainState[snr].lastChange = now]

(***************************************************************************)
(* The stick callback.                                                     *)
(***************************************************************************)
\* the end of callback(): bridge/state online on a connected client
bridgeOnline(w) == IF w.connected THEN publish(w, BridgeTopic, "online", TRUE) ELSE w

\* initStick()
initStick(w) ==
  stick(stick(stick(w, StickCmd("setPosUpdInterval", "", None, None)),
              StickCmd("setWatchMovingBlindsInterval", "", None, None)),
        StickCmd("scanDevices", "", None, None))

\* case 'wms-vb-init-completion'
onInitCompletion(w) ==
  bridgeOnline(trySystemReady(initStick([w EXCEPT !.stickReady = TRUE])))

\* case 'wms-vb-scanned-devices', forceDevices being empty
onScannedDevices(w, elements) == bridgeOnline(registerAll(w, elements, 1))

\* case 'wms-vb-rcv-weather-broadcast'
onWeatherBroadcast(w, stickCmd, weather) ==
  LET w0 == [w EXCEPT !.lastWeatherBroadcast = now]
      r == isDuplicateRawMessage(w0, stickCmd, weather.snr)
  IN IF r.dup THEN bridgeOnline(r.w)
     ELSE LET w1 == IF ~r.w.devices[weather.snr].present
                    THEN registerDevice(r.w, [snr |-> weather.snr, type |-> "63"])
                    ELSE r.w
              w2 == updateWeatherEMA(w1, weather.snr,
                      [wind |-> weather.wind, temp |-> weather.temp,
                       lumen |-> weather.lumen])
          IN bridgeOnline(updateRainState(w2, weather.snr, weather.rain))

\* pollWeatherData(), the interval timer's handler
pollWeatherData(w) ==
  IF now - w.lastWeatherBroadcast < 2 * pollingInterval THEN w
  ELSE IF w.stickWeather = None \/ w.stickWeather[1].snr = "" THEN w
  ELSE LET weatherData == w.stickWeather[1]
           w1 == IF ~w.devices[weatherData.snr].present
                 THEN registerDevice(w, [snr |-> weatherData.snr, type |-> "63"])
                 ELSE w
           w2 == updateWeatherEMA(w1, weatherData.snr,
                   [wind |-> weatherData.wind, temp |-> weatherData.temp,
                    lumen |-> weatherData.lumen])
       IN updateRainState(w2, weatherData.snr, weatherData.rain)

\* onLedPositionUpdate without the timeout branch: a lock is only ever released
\* by its own target
onLedPositionUpdate_NoTimeout(w, snr, position) ==
  IF position = None THEN w
  ELSE LET reported == normalizeWaremaBrightness(Num(position[1]))
           w1 == ensureLedDevice(w, snr)
           d == w1.devices[snr]
       IN IF d.commandActive
          THEN IF Some(reported) = d.commandTarget
               THEN updateLightState([w1 EXCEPT !.devices[snr].commandActive = FALSE],
                                     snr, reported)
               ELSE w1
          ELSE updateLightState(w1, snr, reported)

\* case 'wms-vb-blind-position-update', dev.type === "28"
onLedPositionUpdate(w, snr, position) ==
  IF position = None THEN w
  ELSE LET reported == normalizeWaremaBrightness(Num(position[1]))
           w1 == ensureLedDevice(w, snr)
           d == w1.devices[snr]
       IN IF d.commandActive
          THEN IF Some(reported) = d.commandTarget
               THEN updateLightState([w1 EXCEPT !.devices[snr].commandActive = FALSE],
                                     snr, reported)
               ELSE IF now - d.commandStartTime[1] > COMMAND_TIMEOUT
               THEN updateLightState([w1 EXCEPT !.devices[snr].commandActive = FALSE],
                                     snr, reported)
               ELSE w1
          ELSE updateLightState(w1, snr, reported)

\* SettledState that knows no type
SettledState_AnyType(type, position) ==
  IF position = 0 THEN "open"
  ELSE IF position = 100 THEN "closed"
  ELSE "stopped"

\* the state a settled cover publishes
SettledState(type, position) ==
  IF position = 0 THEN (IF type = "20" THEN "closed" ELSE "open")
  ELSE IF position = 100 THEN (IF type = "20" THEN "open" ELSE "closed")
  ELSE "stopped"

\* case 'wms-vb-blind-position-update', the other types
onCoverPositionUpdate(w, snr, position, angle, moving) ==
  LET dev == w.devices[snr]
  IN IF dev.present /\ dev.type \in {"20", "21", "25"}
     THEN LET w1 == IF position # None
                    THEN LET p1 == publish([w EXCEPT !.devices[snr].position = position],
                                           "warema/" \o snr \o "/position",
                                           ToString(position[1]), TRUE)
                         IN IF moving = Some(FALSE)
                            THEN publish(p1, "warema/" \o snr \o "/state",
                                         SettledState(dev.type, position[1]), TRUE)
                            ELSE p1
                    ELSE w
              w2 == IF angle # None
                    THEN publish([w1 EXCEPT !.devices[snr].tilt = angle],
                                 "warema/" \o snr \o "/tilt", ToString(angle[1]), TRUE)
                    ELSE w1
          IN bridgeOnline(w2)
     ELSE bridgeOnline(w)

\* case 'wms-vb-blind-position-update'
onPositionUpdate(w, snr, position, angle, moving) ==
  IF w.devices[snr].present /\ w.devices[snr].type = "28"
  THEN onLedPositionUpdate(w, snr, position)
  ELSE onCoverPositionUpdate(w, snr, position, angle, moving)

(***************************************************************************)
(* client.on('message').                                                   *)
(***************************************************************************)
ON == <<"O", "N">>
OFF == <<"O", "F", "F">>

\* lightTarget with 0 as the brightness of a light that has none stored
lightTarget_DefaultOff(w, snr, command, message) ==
  LET dev == w.devices[snr]
  IN IF command = "light/set"
     THEN IF toUpperCase(message) = ON
          THEN OrElse(dev.lastBrightness, OrElse(w.ledStateCache[snr], 0))
          ELSE 0
     ELSE normalizeWaremaBrightness(JsClamp(parseInt(message)))

\* the target of light/set and light/set_brightness
lightTarget(w, snr, command, message) ==
  LET dev == w.devices[snr]
  IN IF command = "light/set"
     THEN IF toUpperCase(message) = ON
          THEN OrElse(dev.lastBrightness,
                      OrElse(w.ledStateCache[snr], DEFAULT_ON_BRIGHTNESS))
          ELSE 0
     ELSE normalizeWaremaBrightness(JsClamp(parseInt(message)))

\* onLightCommand without the command lock
onLightCommand_NoLock(w, snr, command, message) ==
  LET target == lightTarget(w, snr, command, message)
      w1 == stick(w, StickCmd("vnBlindSetPosition", snr, Num(target), Num(0)))
      w2 == ensureLedDevice(w1, snr)
  IN updateLightState(w2, snr, target)

\* case 'light/set', case 'light/set_brightness'
onLightCommand(w, snr, command, message) ==
  LET target == lightTarget(w, snr, command, message)
      w1 == stick(w, StickCmd("vnBlindSetPosition", snr, Num(target), Num(0)))
      w2 == ensureLedDevice(w1, snr)
      w3 == [w2 EXCEPT !.devices[snr].commandActive = TRUE,
                       !.devices[snr].commandTarget = Some(target),
                       !.devices[snr].commandStartTime = Some(now)]
  IN updateLightState(w3, snr, target)

(***************************************************************************)
(* Events.                                                                 *)
(***************************************************************************)
NoEvent ==
  [kind |-> "none", snr |-> "", position |-> None, moving |-> None,
   rain |-> None, command |-> "", message |-> <<>>, pre |-> NoDevice,
   preRain |-> NoRain, preCache |-> None, preConnected |-> FALSE,
   processed |-> FALSE, preObs |-> None, preDifferSince |-> None,
   type |-> "", angle |-> None, preArrival |-> None, preSystemReady |-> FALSE,
   preStickReady |-> FALSE, preAccepted |-> None, preStats |-> NoStats,
   threw |-> FALSE, weather |-> None, quantized |-> None]

\* the event of kind k for device snr, with the state it meets
Event(k, snr) ==
  IF snr \in Snrs
  THEN [NoEvent EXCEPT !.kind = k, !.snr = snr, !.pre = devices[snr],
                       !.preRain = rainState[snr], !.preCache = ledStateCache[snr],
                       !.preStats = weatherStats[snr],
                       !.preConnected = connected, !.preObs = rainObs[snr].last,
                       !.preDifferSince = rainObs[snr].differSince,
                       !.preSystemReady = systemReady, !.preStickReady = stickReady]
  ELSE [NoEvent EXCEPT !.kind = k, !.preConnected = connected,
                       !.preSystemReady = systemReady, !.preStickReady = stickReady]

\* time passes: step ms, up to limit steps after the start
Advance(step, limit) ==
  /\ now + step <= Epoch + step * limit
  /\ now' = now + step
  /\ ev' = [NoEvent EXCEPT !.kind = "tick"]
  /\ pub' = <<>>
  /\ hw' = <<>>
  /\ UNCHANGED <<devices, ledStateCache, ledStateFile, discoveryCache,
                 rawMessageCache, weatherStats, rainState, connected, mqttReady,
                 stickReady, systemReady, shuttingDown, weatherInterval, timers,
                 lastWeatherBroadcast, stickWeather, retained, rainObs>>

\* client.on('connect') setting the interval whether or not one is set
onConnect_NoGuard(w) ==
  LET w1 == [w EXCEPT !.connected = TRUE, !.mqttReady = TRUE]
  IN [trySystemReady(w1) EXCEPT !.weatherInterval = TRUE, !.timers = @ + 1]

\* client.on('connect'): the client is connected when the handler runs; the
\* subscriptions it makes are the topics LightCommand delivers
onConnect(w) ==
  LET w1 == [w EXCEPT !.connected = TRUE, !.mqttReady = TRUE]
      w2 == trySystemReady(w1)
  IN IF ~w2.weatherInterval
     THEN [w2 EXCEPT !.weatherInterval = TRUE, !.timers = @ + 1]
     ELSE w2

\* client.on('close')
onClose(w) ==
  [w EXCEPT !.connected = FALSE, !.mqttReady = FALSE, !.systemReady = FALSE]

MqttConnect ==
  /\ ~connected
  /\ ~shuttingDown
  /\ ev' = Event("connect", "")
  /\ Commit(onConnect(World))
  /\ UNCHANGED <<now, rainObs>>

MqttClose ==
  /\ connected
  /\ ev' = Event("close", "")
  /\ Commit(onClose(World))
  /\ UNCHANGED <<now, rainObs>>

StickInit ==
  /\ ev' = Event("init", "")
  /\ Commit(onInitCompletion(World))
  /\ UNCHANGED <<now, rainObs>>

ScannedDevices(elements) ==
  /\ ev' = [Event("scan", elements[1].snr) EXCEPT !.type = elements[1].type]
  /\ Commit(onScannedDevices(World, elements))
  /\ UNCHANGED <<now, rainObs>>

PositionUpdate(snr, position, angle, moving) ==
  /\ ev' = [Event("position", snr) EXCEPT !.position = position, !.moving = moving,
                                           !.angle = angle]
  /\ Commit(onPositionUpdate(World, snr, position, angle, moving))
  /\ UNCHANGED <<now, rainObs>>

\* a message arrives over the connection
LightCommand(snr, command, message) ==
  /\ connected
  /\ ev' = [Event("message", snr) EXCEPT !.command = command, !.message = message]
  /\ Commit(onLightCommand(World, snr, command, message))
  /\ UNCHANGED <<now, rainObs>>

\* History of the rain observations that reached updateRainState: the last
\* value, and since when the observations have differed from the committed state.
Observe(snr, rain, committed) ==
  [rainObs EXCEPT ![snr].last = Some(rain),
                  ![snr].differSince =
                     IF ~rainState[snr].present \/ rain = rainState[snr].state
                        \/ committed.state = rain
                     THEN None
                     ELSE IF @ = None THEN Some(now) ELSE @]

\* History of the arrivals: when a broadcast of (snr, stickCmd) last came in,
\* processed or not.
Arrive(obs, snr, stickCmd) == [obs EXCEPT ![snr].arrival[stickCmd] = Some(now)]

\* ... and when one was last processed
Accept(obs, snr, stickCmd) == [obs EXCEPT ![snr].accepted[stickCmd] = Some(now)]

\* the stick keeps the broadcast, then calls back
WeatherBroadcast(stickCmd, weather) ==
  LET w0 == [World EXCEPT !.stickWeather = Some(weather)]
      processed == ~isDuplicateRawMessage(w0, stickCmd, weather.snr).dup
      w1 == onWeatherBroadcast(w0, stickCmd, weather)
  IN /\ ev' = [Event("weather", weather.snr) EXCEPT
                  !.rain = Some(weather.rain), !.command = stickCmd,
                  !.processed = processed, !.weather = Some(weather),
                  !.preArrival = rainObs[weather.snr].arrival[stickCmd],
                  !.preAccepted = rainObs[weather.snr].accepted[stickCmd]]
     /\ Commit(w1)
     /\ rainObs' = Arrive(IF processed
                          THEN Accept(Observe(weather.snr, weather.rain,
                                              w1.rainState[weather.snr]),
                                      weather.snr, stickCmd)
                          ELSE rainObs,
                          weather.snr, stickCmd)
     /\ UNCHANGED now

\* the weather interval timer fires
PollWeather ==
  LET processed == /\ ~(now - lastWeatherBroadcast < 2 * pollingInterval)
                   /\ stickWeather # None
      w1 == pollWeatherData(World)
  IN /\ weatherInterval
     /\ ev' = IF stickWeather = None THEN Event("poll", "")
              ELSE [Event("poll", stickWeather[1].snr) EXCEPT
                      !.rain = Some(stickWeather[1].rain), !.processed = processed,
                      !.weather = stickWeather]
     /\ Commit(w1)
     /\ rainObs' = IF processed
                   THEN Observe(stickWeather[1].snr, stickWeather[1].rain,
                                w1.rainState[stickWeather[1].snr])
                   ELSE rainObs
     /\ UNCHANGED now

(***************************************************************************)
(* The start: nothing registered, the brightness file as the last run left *)
(* it.                                                                     *)
(***************************************************************************)
SavedBrightness == {None, Some(45)}

Init ==
  /\ now = Epoch
  /\ devices = [s \in Snrs |-> NoDevice]
  /\ \E saved \in SavedBrightness :
       /\ ledStateCache = [s \in Snrs |-> IF s = LedSnr THEN saved ELSE None]
       /\ ledStateFile = ledStateCache
  /\ discoveryCache = << >>
  /\ rawMessageCache = << >>
  /\ weatherStats = [s \in Snrs |-> NoStats]
  /\ rainState = [s \in Snrs |-> NoRain]
  /\ connected = FALSE
  /\ mqttReady = FALSE
  /\ stickReady = FALSE
  /\ systemReady = FALSE
  /\ shuttingDown = FALSE
  /\ weatherInterval = FALSE
  /\ timers = 0
  /\ lastWeatherBroadcast = 0
  /\ stickWeather = None
  /\ retained = << >>
  /\ pub = << >>
  /\ hw = << >>
  /\ rainObs = [s \in Snrs |-> [last |-> None, differSince |-> None,
                                 arrival |-> [c \in StickCmds |-> None],
                                 accepted |-> [c \in StickCmds |-> None]]]
  /\ ev = NoEvent

(***************************************************************************)
(* The light: one LED, its commands and its feedback.                      *)
(***************************************************************************)
BrightnessPayloads == {<<"0">>, <<"2", "3">>, <<"5", "0">>}
FeedbackPositions == {None, Some(0), Some(20), Some(45)}

TickLight == Advance(TickMs, LightTicks)
ScanLed == ScannedDevices(<<[snr |-> LedSnr, type |-> "28"]>>)
LedFeedback == \E p \in FeedbackPositions : PositionUpdate(LedSnr, p, None, Some(FALSE))
LightSet == \E m \in {ON, OFF} : LightCommand(LedSnr, "light/set", m)
LightSetBrightness ==
  \E m \in BrightnessPayloads : LightCommand(LedSnr, "light/set_brightness", m)

NextLight ==
  \/ TickLight
  \/ MqttConnect
  \/ MqttClose
  \/ StickInit
  \/ ScanLed
  \/ LedFeedback
  \/ LightSet
  \/ LightSetBrightness

SpecLight == Init /\ [][NextLight]_vars

(***************************************************************************)
(* The rain: one weather station and its broadcasts.                       *)
(***************************************************************************)
RainBroadcast(rain) ==
  [snr |-> WeatherSnr, wind |-> None, temp |-> None, lumen |-> None, rain |-> rain]

TickRain == Advance(RainTickMs, RainTicks)
RainObserved == \E r \in BOOLEAN : WeatherBroadcast("7080", RainBroadcast(r))

NextRain ==
  \/ TickRain
  \/ MqttConnect
  \/ MqttClose
  \/ RainObserved
  \/ PollWeather

SpecRain == Init /\ [][NextRain]_vars

(***************************************************************************)
(* The light claims.  Each is a predicate of the state a handler leaves:   *)
(* ev is the event it handled and the state it met, pub and hw what it     *)
(* published and sent to the stick.                                        *)
(***************************************************************************)
Led == devices[LedSnr]

\* the handler ran the LED branch of the position update on value ev.position
LedFeedbackEvent ==
  /\ ev.kind = "position"
  /\ ev.snr = LedSnr
  /\ ev.position # None
  /\ ev.pre.present
  /\ ev.pre.type = "28"

Reported == normalizeWaremaBrightness(Num(ev.position[1]))
WasPending == ev.pre.commandActive
SinceCommand == now - ev.pre.commandStartTime[1]

IsLightTopic(m) == m.topic \in {BrightnessTopic(LedSnr), LightStateTopic(LedSnr)}
LightMsgs == SelectSeq(pub, IsLightTopic)
LightPublish(v) ==
  <<Msg(BrightnessTopic(LedSnr), ToString(v), TRUE),
    Msg(LightStateTopic(LedSnr), IF v > 0 THEN "ON" ELSE "OFF", TRUE)>>

\* v was last published less than PUBLISH_DEDUP_MS before the event
Repeats(v) ==
  /\ ev.pre.lastPublishedBrightness = Some(v)
  /\ now - OrElse(ev.pre.lastPublishTimestamp, 0) < PUBLISH_DEDUP_MS

\* C1: a feedback equal to the pending target, at any delay up to the command
\* timeout, leaves the device Idle and publishes nothing on the light topics.
C1_EchoAbsorbed ==
  (/\ LedFeedbackEvent
   /\ WasPending
   /\ Some(Reported) = ev.pre.commandTarget
   /\ SinceCommand <= COMMAND_TIMEOUT)
  => /\ ~Led.commandActive
     /\ LightMsgs = <<>>

\* C2: once the timeout has elapsed, a feedback that differs from the pending
\* target leaves the device Idle and is stored in the registry; it is published
\* on both light topics, retained, when the client is connected, and not at all
\* when it is not.
C2_TimeoutReleases ==
  (/\ LedFeedbackEvent
   /\ WasPending
   /\ SinceCommand > COMMAND_TIMEOUT
   /\ Some(Reported) # ev.pre.commandTarget)
  => /\ ~Led.commandActive
     /\ Led.position = Some(Reported)
     /\ Reported > 0 => Led.lastBrightness = Some(Reported)
     /\ LightMsgs = IF ev.preConnected THEN LightPublish(Reported) ELSE <<>>

C2_Witness ==
  /\ LedFeedbackEvent
  /\ WasPending
  /\ SinceCommand > COMMAND_TIMEOUT
  /\ Some(Reported) # ev.pre.commandTarget
  /\ ~Led.commandActive
  /\ LightMsgs = LightPublish(Reported)

\* C3 as stated: on a connected client, a feedback later than the timeout after
\* the most recent light command is published, and the device is Idle afterwards.
C3_LateFeedbackPublished ==
  (/\ LedFeedbackEvent
   /\ ev.preConnected
   /\ ev.pre.commandStartTime # None
   /\ SinceCommand > COMMAND_TIMEOUT)
  => /\ ~Led.commandActive
     /\ LightMsgs = LightPublish(Reported)

\* C3: a feedback later than the timeout after the most recent light command
\* leaves the device Idle, and is published unless the client is disconnected
\* or the value repeats the one published less than PUBLISH_DEDUP_MS before.
C3_LockNeverPermanent ==
  (/\ LedFeedbackEvent
   /\ ev.pre.commandStartTime # None
   /\ SinceCommand > COMMAND_TIMEOUT)
  => /\ ~Led.commandActive
     /\ LightMsgs = IF ev.preConnected /\ ~Repeats(Reported)
                    THEN LightPublish(Reported) ELSE <<>>

C3_Witness ==
  /\ LedFeedbackEvent
  /\ WasPending
  /\ SinceCommand > COMMAND_TIMEOUT
  /\ Reported = 0
  /\ ~Led.commandActive
  /\ LightMsgs = LightPublish(0)

SetBrightnessEvent ==
  /\ ev.kind = "message"
  /\ ev.snr = LedSnr
  /\ ev.command = "light/set_brightness"

Quantized == normalizeWaremaBrightness(JsClamp(parseInt(ev.message)))

\* what the command handler does besides publishing: one setPosition to the
\* stick, the lock, the registry
CommandRecorded(q) ==
  /\ hw = <<StickCmd("vnBlindSetPosition", LedSnr, Num(q), Num(0))>>
  /\ Led.commandActive
  /\ Led.commandTarget = Some(q)
  /\ Led.commandStartTime = Some(now)
  /\ Led.position = Some(q)
  /\ q > 0 => Led.lastBrightness = Some(q)

\* C4 as stated: a set_brightness command emits the quantized target to the
\* stick, records the lock and the registry, and publishes light/brightness and
\* light/state, retained, in the same handler.
C4_CommandPublishes ==
  SetBrightnessEvent
  => /\ CommandRecorded(Quantized)
     /\ LightMsgs = LightPublish(Quantized)

\* C4: a set_brightness command emits the quantized target to the stick and
\* records the lock and the registry in the same handler; it publishes
\* light/brightness and light/state, retained, unless the quantized value is the
\* one published less than PUBLISH_DEDUP_MS before, and then publishes nothing.
C4_CommandAccepted ==
  SetBrightnessEvent
  => /\ CommandRecorded(Quantized)
     /\ LightMsgs = IF Repeats(Quantized) THEN <<>> ELSE LightPublish(Quantized)

C4_Witness ==
  /\ SetBrightnessEvent
  /\ ev.pre.position # None
  /\ ev.pre.position # Some(Quantized)
  /\ Quantized > 0
  /\ CommandRecorded(Quantized)
  /\ LightMsgs = LightPublish(Quantized)

\* C5: on a connected client, a feedback that differs from the pending target
\* before the timeout is published at once on both light topics and, when
\* nonzero, stored as lastBrightness.
C5_MidFlightRepublished ==
  (/\ LedFeedbackEvent
   /\ ev.preConnected
   /\ WasPending
   /\ SinceCommand <= COMMAND_TIMEOUT
   /\ Some(Reported) # ev.pre.commandTarget)
  => /\ LightMsgs = LightPublish(Reported)
     /\ Reported > 0 => Led.lastBrightness = Some(Reported)

\* C6 as stated: on a connected client, every feedback to an Idle light is
\* published on both light topics and, when nonzero, stored as lastBrightness.
C6_IdleAlwaysPublished ==
  (/\ LedFeedbackEvent
   /\ ev.preConnected
   /\ ~WasPending)
  => /\ LightMsgs = LightPublish(Reported)
     /\ Reported > 0 => Led.lastBrightness = Some(Reported)

\* C6: every feedback to an Idle light is the registry's value afterwards and,
\* when nonzero, its lastBrightness; on a connected client it is published on
\* both light topics, retained, except that a feedback repeating the value
\* published less than PUBLISH_DEDUP_MS before publishes nothing.
C6_IdleFeedbackAuthoritative ==
  (/\ LedFeedbackEvent
   /\ ~WasPending)
  => /\ ~Led.commandActive
     /\ Led.position = Some(Reported)
     /\ Reported > 0 => Led.lastBrightness = Some(Reported)
     /\ LightMsgs = IF ev.preConnected /\ ~Repeats(Reported)
                    THEN LightPublish(Reported) ELSE <<>>

C6_Witness ==
  /\ LedFeedbackEvent
  /\ ev.preConnected
  /\ ~WasPending
  /\ Repeats(Reported)
  /\ Reported > 0
  /\ LightMsgs = <<>>
  /\ Led.lastBrightness = Some(Reported)

LightSetEvent ==
  /\ ev.kind = "message"
  /\ ev.snr = LedSnr
  /\ ev.command = "light/set"

\* C7: light/set ON sends the stick the device's lastBrightness, else the
\* brightness stored for it, else 100, and never 0; light/set OFF sends 0.
C7_OnNeverZero ==
  LightSetEvent
  => /\ Len(hw) = 1
     /\ hw[1].cmd = "vnBlindSetPosition"
     /\ hw[1].snr = LedSnr
     /\ ev.message = ON =>
          /\ hw[1].position # Some(0)
          /\ ev.pre.lastBrightness # None => hw[1].position = ev.pre.lastBrightness
          /\ ev.pre.lastBrightness = None =>
               hw[1].position = Some(OrElse(ev.preCache, DEFAULT_ON_BRIGHTNESS))
     /\ ev.message = OFF => hw[1].position = Some(0)

C7_Witness ==
  /\ LightSetEvent
  /\ ev.message = ON
  /\ ev.pre.lastBrightness = None
  /\ ev.preCache = None
  /\ hw = <<StickCmd("vnBlindSetPosition", LedSnr, Some(100), Some(0))>>

\* C8: on a connected client, once the stick reports the settled value of a
\* commanded light, the value last published on light/brightness is that value,
\* quantized, with no further event.
C8_ConvergesToFinalValue ==
  (/\ LedFeedbackEvent
   /\ ev.moving = Some(FALSE)
   /\ ev.preConnected
   /\ WasPending)
  => /\ BrightnessTopic(LedSnr) \in DOMAIN retained
     /\ retained[BrightnessTopic(LedSnr)] = ToString(Reported)

(***************************************************************************)
(* The rain claims.                                                        *)
(***************************************************************************)
Rain == rainState[WeatherSnr]

\* the handler passed the observation ev.rain to updateRainState
RainEvent ==
  /\ ev.kind \in {"weather", "poll"}
  /\ ev.snr = WeatherSnr
  /\ ev.processed
  /\ ev.rain # None

IsRainTopic(m) == m.topic = RainTopic(WeatherSnr)
RainMsgs == SelectSeq(pub, IsRainTopic)
RainDelay(isRaining) == IF isRaining THEN RAIN_ON_DELAY ELSE RAIN_OFF_DELAY

\* C9: when the previous observation agreed with the committed state, one
\* observation of the opposite value leaves the committed state as it was and
\* publishes nothing on rain/state, whatever the time since that observation.
C9_SingleFlickerIgnored ==
  (/\ RainEvent
   /\ ev.preRain.present
   /\ ev.preObs = Some(ev.preRain.state)
   /\ ev.rain # Some(ev.preRain.state))
  => /\ Rain.state = ev.preRain.state
     /\ RainMsgs = <<>>

\* the observations have differed from the committed state since
\* ev.preDifferSince, and this one makes that at least the delay
SustainedChange ==
  /\ RainEvent
  /\ ev.preRain.present
  /\ ev.rain # Some(ev.preRain.state)
  /\ ev.preDifferSince # None
  /\ now - ev.preDifferSince[1] >= RainDelay(ev.rain[1])

\* C10: consecutive observations that differ from the committed state over at
\* least the delay of the proposed value commit that value at the observation
\* completing the delay, with one retained rain/state message on a connected
\* client; an observation that leaves the committed state as it was publishes
\* no rain/state message.
C10_SustainedChangeCommitsOnce ==
  /\ SustainedChange
     => /\ Rain.state = ev.rain[1]
        /\ Rain.lastChange = now
        /\ rainObs[WeatherSnr].differSince = None
        /\ RainMsgs = IF ev.preConnected
                      THEN <<Msg(RainTopic(WeatherSnr), RainPayload(ev.rain[1]), TRUE)>>
                      ELSE <<>>
  /\ (RainEvent /\ ev.preRain.present /\ Rain.state = ev.preRain.state)
     => RainMsgs = <<>>

C10_Witness ==
  /\ SustainedChange
  /\ ev.preConnected
  /\ ev.rain = Some(FALSE)
  /\ ev.preRain.state = TRUE
  /\ Rain.state = FALSE
  /\ RainMsgs = <<Msg(RainTopic(WeatherSnr), "OFF", TRUE)>>

\* C11: the first rain observation of a sensor is its committed state at once,
\* with one retained rain/state message on a connected client, and the sensor
\* is Stable afterwards: the observations agree with the committed state.
C11_FirstObservationCommitted ==
  (/\ RainEvent
   /\ ~ev.preRain.present)
  => /\ Rain.present
     /\ Rain.state = ev.rain[1]
     /\ Rain.lastChange = now
     /\ rainObs[WeatherSnr].last = Some(Rain.state)
     /\ rainObs[WeatherSnr].differSince = None
     /\ RainMsgs = IF ev.preConnected
                   THEN <<Msg(RainTopic(WeatherSnr), RainPayload(ev.rain[1]), TRUE)>>
                   ELSE <<>>

C11_Witness ==
  /\ RainEvent
  /\ ~ev.preRain.present
  /\ ev.preConnected
  /\ ev.rain = Some(TRUE)
  /\ Rain.state = TRUE
  /\ RainMsgs = <<Msg(RainTopic(WeatherSnr), "ON", TRUE)>>

(***************************************************************************)
(* The raw-message spacing: broadcasts of two tags on a fine clock.        *)
(***************************************************************************)
WindBroadcast(rain) ==
  [snr |-> WeatherSnr, wind |-> Some(10), temp |-> None, lumen |-> None, rain |-> rain]

TickDedup == Advance(DedupTickMs, DedupTicks)
TaggedBroadcast ==
  \E c \in StickCmds, r \in BOOLEAN : WeatherBroadcast(c, WindBroadcast(r))

NextDedup ==
  \/ TickDedup
  \/ MqttConnect
  \/ MqttClose
  \/ TaggedBroadcast

SpecDedup == Init /\ [][NextDedup]_vars

BroadcastEvent == ev.kind = "weather" /\ ev.snr = WeatherSnr

\* the handler left the EMA and the rain state as they were
Unprocessed ==
  /\ ~ev.processed
  /\ weatherStats[WeatherSnr] = ev.preStats
  /\ Rain = ev.preRain

\* the handler updated the EMA and passed the rain on
Processed ==
  /\ ev.processed
  /\ weatherStats[WeatherSnr].present
  /\ weatherStats[WeatherSnr].wind # None
  /\ Rain.present
  /\ rainObs[WeatherSnr].last = ev.rain

\* C12 as stated: a broadcast less than MIN_RAW_SPACING after the previous
\* broadcast of its (id, tag) is not processed; one more than the spacing after
\* it is processed.
C12_SecondOfCloseDropped ==
  (BroadcastEvent /\ ev.preArrival # None)
  => /\ now - ev.preArrival[1] < MIN_RAW_SPACING => Unprocessed
     /\ now - ev.preArrival[1] > MIN_RAW_SPACING => Processed

\* C12: a broadcast less than MIN_RAW_SPACING after the last processed
\* broadcast of its (id, tag) is not processed; every other broadcast is, the
\* first of its (id, tag) included.
C12_SpacedFromLastProcessed ==
  BroadcastEvent
  => IF ev.preAccepted # None /\ now - ev.preAccepted[1] < MIN_RAW_SPACING
     THEN Unprocessed
     ELSE Processed

\* a broadcast is processed less than the spacing after a dropped one
C12_Witness ==
  /\ BroadcastEvent
  /\ ev.preArrival # None
  /\ ev.preAccepted # None
  /\ ev.preArrival # ev.preAccepted
  /\ now - ev.preArrival[1] < MIN_RAW_SPACING
  /\ now - ev.preAccepted[1] >= MIN_RAW_SPACING
  /\ Processed

(***************************************************************************)
(* The covers: one actuator of kind "20" or "25" and its position updates. *)
(***************************************************************************)
CoverElements == {[snr |-> LedSnr, type |-> "20"], [snr |-> LedSnr, type |-> "25"]}
CoverPositions == {None, Some(0), Some(30), Some(100)}
CoverAngles == {None, Some(10)}

ScanCover == \E element \in CoverElements : ScannedDevices(<<element>>)
CoverFeedback ==
  \E p \in CoverPositions, a \in CoverAngles, m \in BOOLEAN :
    PositionUpdate(LedSnr, p, a, Some(m))

NextCover ==
  \/ MqttConnect
  \/ MqttClose
  \/ ScanCover
  \/ CoverFeedback

SpecCover == Init /\ [][NextCover]_vars

\* the handler ran the cover branch of the position update
CoverEvent ==
  /\ ev.kind = "position"
  /\ ev.snr \in Snrs
  /\ ev.pre.present
  /\ ev.pre.type \in {"20", "21", "25"}

SettledEvent == CoverEvent /\ ev.moving = Some(FALSE) /\ ev.position # None

PositionTopic(snr) == "warema/" \o snr \o "/position"
StateTopic(snr) == "warema/" \o snr \o "/state"
IsCoverTopic(m) == m.topic \in {PositionTopic(ev.snr), StateTopic(ev.snr)}
CoverMsgs == SelectSeq(pub, IsCoverTopic)
CoverPublish(position, state) ==
  <<Msg(PositionTopic(ev.snr), ToString(position), TRUE),
    Msg(StateTopic(ev.snr), state, TRUE)>>

\* C13 as stated: a settled observation of a cover publishes its position and
\* the state open at 0, closed at 100 and stopped elsewhere, both retained.
C13_SettledStateOfPosition ==
  SettledEvent
  => CoverMsgs = CoverPublish(ev.position[1],
                              IF ev.position[1] = 0 THEN "open"
                              ELSE IF ev.position[1] = 100 THEN "closed"
                              ELSE "stopped")

\* C13: a settled observation of a cover publishes its position and a state,
\* both retained; the state is stopped away from the end positions, and at the
\* end positions open at 0 and closed at 100 for every kind but "20", for which
\* it is closed at 0 and open at 100.
C13_SettledStateOfKind ==
  SettledEvent
  => CoverMsgs = CoverPublish(ev.position[1],
                              IF ev.position[1] \notin {0, 100} THEN "stopped"
                              ELSE IF (ev.position[1] = 0) = (ev.pre.type # "20")
                              THEN "open" ELSE "closed")

C13_Witness ==
  /\ SettledEvent
  /\ ev.pre.type = "20"
  /\ ev.position = Some(0)
  /\ CoverMsgs = CoverPublish(0, "closed")
  /\ devices[ev.snr].position = Some(0)

(***************************************************************************)
(* The cover module (modules/covers.js and the hardware callbacks that     *)
(* call it): the variant of the bridge that derives the direction of a     *)
(* moving cover from its last position.                                    *)
(***************************************************************************)
\* updateCoverPosition without lastPosition: the direction is relative to 50
updateCoverPosition_Halfway(w, snr, newPos, moving, lastPos) ==
  LET dev == w.devices[snr]
      state == IF moving
               THEN (IF newPos > 50 THEN "closing" ELSE "opening")
               ELSE IF newPos = 0 THEN "open"
               ELSE IF newPos = 100 THEN "closed"
               ELSE "stopped"
      retain == dev.lastPosition = None
      w1 == [w EXCEPT !.devices[snr].position = Some(newPos)]
      w2 == publish(w1, "warema/" \o snr \o "/position", ToString(newPos), retain)
      w3 == publish(w2, "warema/" \o snr \o "/state", state, retain)
  IN w3

\* modules/covers.js
updateCoverPosition(w, snr, newPos, moving, lastPos) ==
  LET dev == w.devices[snr]
      state == IF moving
               THEN (IF newPos > OrElse(lastPos, 0) THEN "closing" ELSE "opening")
               ELSE IF newPos = 0 THEN "open"
               ELSE IF newPos = 100 THEN "closed"
               ELSE "stopped"
      retain == dev.lastPosition = None
      w1 == [w EXCEPT !.devices[snr].position = Some(newPos)]
      w2 == publish(w1, "warema/" \o snr \o "/position", ToString(newPos), retain)
      w3 == publish(w2, "warema/" \o snr \o "/state", state, retain)
  IN [w3 EXCEPT !.devices[snr].lastPosition = Some(newPos)]

updateCoverTilt(w, snr, angle) ==
  publish([w EXCEPT !.devices[snr].tilt = Some(angle)],
          "warema/" \o snr \o "/tilt", ToString(angle), TRUE)

\* publishInitialState of a cover
publishInitialState(w, snr) ==
  IF ~w.connected THEN w
  ELSE LET dev == w.devices[snr]
           w1 == IF dev.position # None
                 THEN publish(publish(w, "warema/" \o snr \o "/position",
                                      ToString(dev.position[1]), TRUE),
                              "warema/" \o snr \o "/state",
                              IF dev.position[1] = 0 THEN "open"
                              ELSE IF dev.position[1] = 100 THEN "closed"
                              ELSE "stopped", TRUE)
                 ELSE w
       IN IF dev.tilt # None
          THEN publish(w1, "warema/" \o snr \o "/tilt", ToString(dev.tilt[1]), TRUE)
          ELSE w1

\* registerDevice of the variant, for a cover; stickPos is what
\* stickUsb.vnBlindGetPosition returns
registerCover(w, element, stickPos) ==
  LET snr == element.snr
      w0 == [w EXCEPT !.devices[snr] = NewDevice(element.type)]
      w1 == stick(w0, StickCmd("vnBlindAdd", snr, None, None))
      w2 == IF w.connected
            THEN LET a == publish(w1, AvailabilityTopic(snr), "online", TRUE)
                     b == stick(a, StickCmd("vnBlindGetPosition", snr, None, None))
                     c == IF stickPos # None
                          THEN [b EXCEPT !.devices[snr].position = stickPos,
                                         !.devices[snr].lastPosition = stickPos]
                          ELSE b
                 IN publishInitialState(c, snr)
            ELSE w1
  IN publish(w2, DiscoveryTopic(snr, element.type),
             DiscoveryPayload(snr, element.type), TRUE)

\* onMessage, case 'wms-vb-blind-position-update', of a registered cover
onMessagePositionUpdate(w, snr, position, angle, moving) ==
  IF ~w.devices[snr].present THEN w
  ELSE LET dev == w.devices[snr]
           w1 == IF position # None
                 THEN updateCoverPosition(w, snr, position[1], moving = Some(TRUE),
                                          dev.lastPosition)
                 ELSE w
           w2 == IF angle # None THEN updateCoverTilt(w1, snr, angle[1]) ELSE w1
       IN bridgeOnline(w2)

ModuleScan ==
  \E element \in CoverElements, stickPos \in CoverPositions :
    /\ ev' = [Event("module-scan", element.snr) EXCEPT !.type = element.type,
                                                       !.position = stickPos]
    /\ Commit(registerCover(World, element, stickPos))
    /\ UNCHANGED <<now, rainObs>>

ModuleFeedback ==
  \E p \in CoverPositions, a \in CoverAngles, m \in BOOLEAN :
    /\ ev' = [Event("module-position", LedSnr) EXCEPT
                !.position = p, !.moving = Some(m), !.angle = a]
    /\ Commit(onMessagePositionUpdate(World, LedSnr, p, a, Some(m)))
    /\ UNCHANGED <<now, rainObs>>

NextCoverModule ==
  \/ MqttConnect
  \/ MqttClose
  \/ ModuleScan
  \/ ModuleFeedback

SpecCoverModule == Init /\ [][NextCoverModule]_vars

\* updateCoverPosition ran on the observation ev.position
ModuleCoverEvent ==
  /\ ev.kind = "module-position"
  /\ ev.pre.present
  /\ ev.position # None

C15_SettledRetained ==
  ModuleCoverEvent
  => \A i \in 1..Len(CoverMsgs) :
       CoverMsgs[i].retain = (ev.pre.lastPosition = None \/ ev.moving = Some(FALSE))

(***************************************************************************)
(* The bridge: connects, scans and the rebind, with a device of kind "24", *)
(* "25" or "28" beside a weather station, at one instant.                  *)
(***************************************************************************)
ScanElements ==
  {[snr |-> LedSnr, type |-> "24"], [snr |-> LedSnr, type |-> "25"],
   [snr |-> LedSnr, type |-> "28"], [snr |-> WeatherSnr, type |-> "63"]}

ScanDevice == \E element \in ScanElements : ScannedDevices(<<element>>)
BridgeFeedback == PositionUpdate(LedSnr, Some(30), Some(10), Some(FALSE))
LockLed == LightCommand(LedSnr, "light/set_brightness", <<"5", "0">>)

NextBridge ==
  \/ MqttConnect
  \/ MqttClose
  \/ StickInit
  \/ ScanDevice
  \/ BridgeFeedback
  \/ LockLed

SpecBridge == Init /\ [][NextBridge]_vars

IsBridgeTopic(m) == m.topic = BridgeTopic
BridgeMsgs == SelectSeq(pub, IsBridgeTopic)

\* the handler of a connect or an init completion ran the rebind: it published
\* bridge/state online once more than the end of the stick callback does
RebindRan ==
  /\ ev.kind \in {"connect", "init"}
  /\ Len(BridgeMsgs) = IF ev.kind = "init" THEN 2 ELSE 1

\* C16: a connect or an init completion runs the rebind exactly when it makes
\* "connected and stick ready" true; signals that find it true run nothing,
\* and a close makes it false, so that the next connect runs the rebind again.
C16_RebindOncePerReady ==
  /\ ev.kind \in {"connect", "init"}
     => (RebindRan <=> /\ connected /\ stickReady
                       /\ ~(ev.preConnected /\ ev.preStickReady))
  /\ systemReady <=> (connected /\ stickReady)
  /\ ev.kind = "close" => ~connected
  /\ ev.kind \notin {"connect", "init"} => Len(BridgeMsgs) <= 1

C16_Witness ==
  /\ ev.kind = "init"
  /\ ev.preSystemReady
  /\ connected
  /\ ~RebindRan
  /\ Len(BridgeMsgs) = 1

Registered == {snr \in Snrs : devices[snr].present}
Readable == {snr \in Registered : devices[snr].type \in {"20", "21", "25", "28"}}
NCached == Cardinality(DOMAIN discoveryCache)
NRegistered == Cardinality(Registered)
IsGetPosition(c) == c.cmd = "vnBlindGetPosition"
PositionReads == SelectSeq(hw, IsGetPosition)

Once == rebindAfterMqttConnect(World)
Twice == rebindAfterMqttConnect(Once)

\* C18: running the rebind twice in a row with no event in between leaves
\* the same retained topic values, the same registry and the same discovery
\* cache as running it once.
C18_RebindIdempotent ==
  /\ Twice.retained = Once.retained
  /\ Twice.devices = Once.devices
  /\ Twice.discoveryCache = Once.discoveryCache
  /\ RebindRan => /\ Once.retained = retained
                  /\ Once.devices = devices
                  /\ Once.discoveryCache = discoveryCache

C18_Witness ==
  /\ RebindRan
  /\ NCached = 1
  /\ Registered = {LedSnr, WeatherSnr}
  /\ devices[LedSnr].commandActive
  /\ Twice.retained = retained
  /\ \A topic \in DOMAIN discoveryCache : topic \in DOMAIN retained

\* the discovery topics registerDevice produces for a device of the kind
Produced(snr, type) ==
  IF type = "63" THEN {SensorConfigTopics(snr)[i] : i \in 1..Len(SensorConfigTopics(snr))}
  ELSE IF type \in {"20", "21", "24", "25", "28"} /\ snr \notin ignoredDevices
       THEN {DiscoveryTopic(snr, type)}
       ELSE {}
Republished == {pub[i].topic : i \in 1..Len(pub)}

\* C19: every discovery payload produced when a device is registered, of
\* every kind including the weather sensor, is in the discovery cache under
\* its topic and is republished by every later rebind, also when the device
\* was registered while the transport was disconnected.
C19_DiscoveryCached ==
  /\ ev.kind = "scan"
     => \A topic \in Produced(ev.snr, ev.type) :
          /\ topic \in DOMAIN discoveryCache
          /\ discoveryCache[topic] = DiscoveryPayload(ev.snr, ev.type)
  /\ RebindRan
     => /\ DOMAIN discoveryCache \subseteq Republished
        /\ devices[WeatherSnr].present
           => Produced(WeatherSnr, devices[WeatherSnr].type) \subseteq Republished

RescanEvent == ev.kind = "scan" /\ ev.pre.present

\* C20: registering a device id that is already in the registry keeps its
\* position, tilt, lastBrightness and command lock and changes only its
\* kind; registering an absent id creates the entry.
C20_RescanKeepsFields ==
  ev.kind = "scan"
  => /\ devices[ev.snr].present
     /\ devices[ev.snr].type = ev.type
     /\ RescanEvent
        => /\ devices[ev.snr].position = ev.pre.position
           /\ devices[ev.snr].tilt = ev.pre.tilt
           /\ devices[ev.snr].lastBrightness = ev.pre.lastBrightness
           /\ devices[ev.snr].commandActive = ev.pre.commandActive
           /\ devices[ev.snr].commandTarget = ev.pre.commandTarget
           /\ devices[ev.snr].commandStartTime = ev.pre.commandStartTime

(***************************************************************************)
(* Control-plane messages: set_position, set_tilt and the light commands,  *)
(* with numeric and non-numeric payloads.                                  *)
(***************************************************************************)
\* case 'set_position': vnBlindSetPosition(snr, parseInt(message, 10))
onSetPosition(w, snr, message) ==
  stick(w, StickCmd("vnBlindSetPosition", snr, parseInt(message), None))

\* case 'set_tilt': vnBlindSetPosition(snr, parseInt(position ?? 0), parseInt(message))
onSetTilt(w, snr, message) ==
  stick(w, StickCmd("vnBlindSetPosition", snr,
                    Num(OrElse(w.devices[snr].position, 0)), parseInt(message)))

\* client.on('message'): switch (command)
onMessage(w, snr, command, message) ==
  CASE command = "set_position" -> onSetPosition(w, snr, message)
    [] command = "set_tilt" -> onSetTilt(w, snr, message)
    [] command \in {"light/set", "light/set_brightness"} ->
         onLightCommand(w, snr, command, message)
    [] OTHER -> w

Message(snr, command, message) ==
  /\ connected
  /\ ev' = [Event("message", snr) EXCEPT !.command = command, !.message = message]
  /\ Commit(onMessage(World, snr, command, message))
  /\ UNCHANGED <<now, rainObs>>

CommandTopics == {"set_position", "set_tilt", "light/set", "light/set_brightness"}
CommandPayloads == {<<"a", "b", "c">>, <<"5", "0">>, ON, <<"o", "f", "f">>}
Command ==
  \E command \in CommandTopics, message \in CommandPayloads :
    Message(LedSnr, command, message)

NextCommand ==
  \/ MqttConnect
  \/ MqttClose
  \/ ScanDevice
  \/ BridgeFeedback
  \/ Command

SpecCommand == Init /\ [][NextCommand]_vars

Malformed ==
  /\ ev.kind = "message"
  /\ \/ /\ ev.command \in {"light/set_brightness", "set_position", "set_tilt"}
        /\ IsNaN(parseInt(ev.message))
     \/ /\ ev.command = "light/set"
        /\ toUpperCase(ev.message) \notin {ON, OFF}

\* C21: a message whose numeric payload cannot be parsed (light/set_brightness,
\* set_position, set_tilt) or a light/set payload other than ON/OFF is
\* dropped: no command goes to the hardware, nothing is published and the
\* registry entry, command lock included, is unchanged.
C21_MalformedDropped ==
  Malformed => /\ hw = <<>>
               /\ pub = <<>>
               /\ devices[ev.snr] = ev.pre

(***************************************************************************)
(* Registration of recognised and unrecognised kinds.                      *)
(***************************************************************************)
KnownKinds == {"63", "07", "09", "20", "21", "24", "25", "28"}
RegisterElements ==
  {[snr |-> LedSnr, type |-> "25"], [snr |-> LedSnr, type |-> "99"],
   [snr |-> WeatherSnr, type |-> "63"], [snr |-> WeatherSnr, type |-> "99"]}
ScanAny == \E element \in RegisterElements : ScannedDevices(<<element>>)

NextRegister ==
  \/ MqttConnect
  \/ MqttClose
  \/ StickInit
  \/ ScanAny
  \/ BridgeFeedback

SpecRegister == Init /\ [][NextRegister]_vars

Announced ==
  {snr \in Snrs : \E i \in 1..Len(pub) :
                    pub[i] = Msg(AvailabilityTopic(snr), "online", TRUE)}

\* C22: registering a device of an unrecognised kind leaves the registry
\* unchanged (no entry for a new id, no field of an existing entry modified),
\* and no later rebind announces such a device online.
C22_UnknownKindIgnored ==
  /\ (ev.kind = "scan" /\ ev.type \notin KnownKinds) => devices[ev.snr] = ev.pre
  /\ RebindRan => \A snr \in Announced : devices[snr].type \in KnownKinds

UnregisteredFeedback ==
  /\ ev.kind = "position"
  /\ ~ev.pre.present
  /\ ev.position # None

\* C23: a position observation for a device id that is not in the registry
\* does not fail: the device is registered lazily with default fields and the
\* observation is applied to the entry and published.
C23_LazyRegistration ==
  UnregisteredFeedback
  => /\ devices[ev.snr].present
     /\ devices[ev.snr].position = ev.position
     /\ \E i \in 1..Len(pub) :
          /\ pub[i].topic = PositionTopic(ev.snr)
          /\ pub[i].payload = ToString(ev.position[1])

(***************************************************************************)
(* Shutdown.                                                               *)
(***************************************************************************)
\* shutdown with the transport ended before the offline publishes
shutdown_EndFirst(w, closable) ==
  IF w.shuttingDown THEN w
  ELSE LET w1 == onClose([w EXCEPT !.shuttingDown = TRUE, !.weatherInterval = FALSE,
                                   !.timers = IF w.weatherInterval THEN @ - 1 ELSE @])
           w2 == IF w1.connected
                 THEN publishAvailability(publish(w1, BridgeTopic, "offline", TRUE),
                                          DeviceKeys(w1), "offline", 1)
                 ELSE w1
       IN IF closable THEN stick(w2, StickCmd("close", "", None, None)) ELSE w2

\* shutdown(reason); closable: the stick library has a close method.
\* client.end(false, resolve) closes the connection, so the 'close' handler
\* has run when the awaited promise resolves.
shutdown(w, closable) ==
  IF w.shuttingDown THEN w
  ELSE LET w1 == [w EXCEPT !.shuttingDown = TRUE]
           w2 == IF w1.connected
                 THEN publishAvailability(publish(w1, BridgeTopic, "offline", TRUE),
                                          DeviceKeys(w1), "offline", 1)
                 ELSE w1
           w3 == [w2 EXCEPT !.weatherInterval = FALSE,
                            !.timers = IF w2.weatherInterval THEN @ - 1 ELSE @]
           w4 == onClose(w3)
       IN IF closable THEN stick(w4, StickCmd("close", "", None, None)) ELSE w4

\* SIGTERM, SIGINT
Shutdown ==
  \E closable \in BOOLEAN :
    /\ ev' = Event("shutdown", "")
    /\ Commit(shutdown(World, closable))
    /\ UNCHANGED <<now, rainObs>>

\* the process handles events until it exits
Running ==
  /\ ~shuttingDown
  /\ \/ MqttConnect
     \/ MqttClose
     \/ ScanDevice

NextShutdown ==
  \/ Running
  \/ Shutdown

SpecShutdown == Init /\ [][NextShutdown]_vars

IsRelease(c) == c.cmd = "close"

Emission(w, snr, command, message) ==
  CASE command = "set_position" ->
         StickCmd("vnBlindSetPosition", snr, parseInt(message), None)
    [] command = "set_tilt" ->
         StickCmd("vnBlindSetPosition", snr,
                  Num(OrElse(w.devices[snr].position, 0)), parseInt(message))
    [] OTHER ->
         StickCmd("vnBlindSetPosition", snr,
                  Num(lightTarget(w, snr, command, message)), Num(0))

\* client.on('message') when stickUsb.vnBlindSetPosition throws: no try
\* encloses the call, the handler ends there and the exception reaches
\* process.on('uncaughtException'), which shuts the bridge down
onMessageThrows(w, snr, command, message, closable) ==
  shutdown(stick(w, Emission(w, snr, command, message)), closable)

MessageThrows(snr, command, message, closable) ==
  /\ connected
  /\ ev' = [Event("message", snr) EXCEPT !.command = command, !.message = message,
                                         !.threw = TRUE]
  /\ Commit(onMessageThrows(World, snr, command, message, closable))
  /\ UNCHANGED <<now, rainObs>>

EmitPayloads == {<<"5", "0">>, ON}
Emit ==
  \E command \in CommandTopics, message \in EmitPayloads :
    Message(LedSnr, command, message)
EmitThrows ==
  \E command \in CommandTopics, message \in EmitPayloads, closable \in BOOLEAN :
    MessageThrows(LedSnr, command, message, closable)

Serving ==
  /\ ~shuttingDown
  /\ \/ MqttConnect
     \/ MqttClose
     \/ ScanDevice
     \/ Emit
     \/ EmitThrows

NextEmit ==
  \/ Serving
  \/ Shutdown

SpecEmit == Init /\ [][NextEmit]_vars

IsSetPosition(c) == c.cmd = "vnBlindSetPosition"
Attempts == SelectSeq(hw, IsSetPosition)

\* C24: a setPosition emission that throws does not let the exception escape
\* the command handler (the bridge keeps running, to retry once after a
\* delay), and one command causes at most two emission attempts.
C24_ThrowContained ==
  (ev.kind = "message" /\ ev.threw)
  => /\ ~shuttingDown
     /\ connected
     /\ Len(Attempts) \in 1..2

(***************************************************************************)
(* The weather metrics: broadcasts of wind and illuminance on a coarse     *)
(* clock that crosses the publish interval.                                *)
(***************************************************************************)
MetricBroadcast(wind, lumen) ==
  [snr |-> WeatherSnr, wind |-> wind, temp |-> None, lumen |-> lumen, rain |-> FALSE]
MetricReadings ==
  {MetricBroadcast(Some(0), None), MetricBroadcast(Some(5), None),
   MetricBroadcast(Some(7), Some(3))}

TickWeather == Advance(WeatherTickMs, WeatherTicks)
MetricObserved ==
  \E weather \in MetricReadings : WeatherBroadcast("7080", weather)

NextWeather ==
  \/ TickWeather
  \/ MqttConnect
  \/ MqttClose
  \/ MetricObserved

SpecWeather == Init /\ [][NextWeather]_vars

WeatherStats == weatherStats[WeatherSnr]
\* updateWeatherEMA ran on the data of the event
WeatherEvent ==
  /\ ev.kind \in {"weather", "poll"}
  /\ ev.snr = WeatherSnr
  /\ ev.processed
GateOpen == now - ev.preStats.lastPublish >= WEATHER_PUBLISH_INTERVAL_MS
MetricTopics ==
  {"warema/" \o WeatherSnr \o "/wind/state",
   "warema/" \o WeatherSnr \o "/temperature/state",
   "warema/" \o WeatherSnr \o "/illuminance/state"}
IsMetricTopic(m) == m.topic \in MetricTopics
MetricMsgs == SelectSeq(pub, IsMetricTopic)
SmoothedMsgs ==
  (IF WeatherStats.wind = None THEN <<>>
   ELSE <<Msg("warema/" \o WeatherSnr \o "/wind/state",
              toFixed1(WeatherStats.wind[1]), TRUE)>>)
  \o (IF WeatherStats.temp = None THEN <<>>
      ELSE <<Msg("warema/" \o WeatherSnr \o "/temperature/state",
                 toFixed1(WeatherStats.temp[1]), TRUE)>>)
  \o (IF WeatherStats.lumen = None THEN <<>>
      ELSE <<Msg("warema/" \o WeatherSnr \o "/illuminance/state",
                 ToString(MathRound(WeatherStats.lumen[1])), TRUE)>>)

\* C26: an observation arriving when now - lastPublish >= the publish
\* interval publishes the smoothed value of every tracked metric and sets
\* lastPublish to now; an earlier one publishes nothing and leaves
\* lastPublish, so a publish is never less than the interval after the
\* previous one.  (With the transport down nothing is published and
\* lastPublish stays.)
C26_PublishGate ==
  /\ WeatherEvent
     => IF GateOpen /\ ev.preConnected
        THEN /\ MetricMsgs = SmoothedMsgs
             /\ WeatherStats.lastPublish = now
        ELSE /\ MetricMsgs = <<>>
             /\ WeatherStats.lastPublish = ev.preStats.lastPublish
  /\ ~WeatherEvent => MetricMsgs = <<>>
  /\ WeatherStats.lastPublish <= now

C26_Witness ==
  /\ WeatherEvent
  /\ GateOpen
  /\ ev.preConnected
  /\ ev.preStats.lastPublish >= Epoch
  /\ Len(MetricMsgs) = 2

(***************************************************************************)
(* The smoothing: broadcasts of two tags, at one instant and a second      *)
(* apart.                                                                  *)
(***************************************************************************)
TickEma == Advance(EmaTickMs, EmaTicks)
TaggedMetric ==
  \E c \in StickCmds, weather \in MetricReadings : WeatherBroadcast(c, weather)

NextEma ==
  \/ TickEma
  \/ MqttConnect
  \/ MqttClose
  \/ TaggedMetric

SpecEma == Init /\ [][NextEma]_vars

Observed == ev.weather[1]
WindTopic == "warema/" \o WeatherSnr \o "/wind/state"
LumenTopic == "warema/" \o WeatherSnr \o "/illuminance/state"
IsWindTopic(m) == m.topic = WindTopic
IsLumenTopic(m) == m.topic = LumenTopic
WindMsgs == SelectSeq(pub, IsWindTopic)
LumenMsgs == SelectSeq(pub, IsLumenTopic)
FirstWind ==
  /\ WeatherEvent
  /\ ev.preStats.wind = None
  /\ Observed.wind # None

\* C27: on a fresh channel the first observed value of a metric is its
\* smoothed value exactly, a first value of 0 included (published as it is
\* when the publish goes out), and a metric never observed has no smoothed
\* value and is not published.
C27_FirstSampleExact ==
  /\ FirstWind
     => /\ WeatherStats.wind = Some(Frac(Observed.wind[1], 1))
        /\ ev.preConnected /\ GateOpen
           => WindMsgs = <<Msg(WindTopic, ToString(Observed.wind[1]) \o ".0", TRUE)>>
  /\ (WeatherEvent /\ ev.preStats.lumen = None /\ Observed.lumen = None)
     => WeatherStats.lumen = None /\ LumenMsgs = <<>>
  /\ ~weatherStats[WeatherSnr].present
     => weatherStats[WeatherSnr] = NoStats
  /\ WeatherStats.temp = None

C27_Witness ==
  /\ FirstWind
  /\ Observed.wind = Some(0)
  /\ ev.preConnected
  /\ WindMsgs = <<Msg(WindTopic, "0.0", TRUE)>>
  /\ WeatherStats.lumen = None
  /\ LumenMsgs = <<>>

LaterWind ==
  /\ WeatherEvent
  /\ ev.preStats.wind # None
  /\ Observed.wind # None
OldWind == ev.preStats.wind[1]
NewWind == WeatherStats.wind[1]
\* the fraction p is less than the fraction q
Less(p, q) == p.n * q.d < q.n * p.d

\* C28: an observation b of a metric whose smoothed value is a (a first
\* observation, or any value before) leaves a + 0.2 * (b - a), whatever the
\* time between the two; for b # a this is strictly between a and b and
\* closer to a.
C28_SecondSampleDamped ==
  LaterWind
  => LET b == Frac(Observed.wind[1], 1)
         mid2 == Frac(OldWind.n + b.n * OldWind.d, OldWind.d)
         new2 == Frac(2 * NewWind.n, NewWind.d)
     IN /\ 5 * (NewWind.n * OldWind.d - OldWind.n * NewWind.d)
             = (b.n * OldWind.d - OldWind.n) * NewWind.d
        /\ Less(OldWind, b) => /\ Less(OldWind, NewWind)
                               /\ Less(NewWind, b)
                               /\ Less(new2, mid2)
        /\ Less(b, OldWind) => /\ Less(b, NewWind)
                               /\ Less(NewWind, OldWind)
                               /\ Less(mid2, new2)
        /\ (~Less(OldWind, b) /\ ~Less(b, OldWind)) => NewWind = OldWind

C28_Witness ==
  /\ LaterWind
  /\ OldWind = Frac(5, 1)
  /\ Observed.wind = Some(7)
  /\ NewWind = Frac(27, 5)
  /\ ev.command = "7081"
  /\ rainObs[WeatherSnr].accepted["7080"] = Some(now)
  /\ ~GateOpen

\* the sensor is Pending: the observations have differed from the committed
\* state since ev.preDifferSince
WasRainPending ==
  /\ RainEvent
  /\ ev.preRain.present
  /\ ev.preDifferSince # None

\* C29: while a rain sensor is Pending with proposed state p, a further
\* observation equal to p before delay(p) has elapsed since the first
\* differing observation leaves the committed state and the pending start
\* unchanged and publishes nothing.
C29_PendingKeepsTimer ==
  (/\ WasRainPending
   /\ ev.rain # Some(ev.preRain.state)
   /\ now - ev.preDifferSince[1] < RainDelay(ev.rain[1]))
  => /\ Rain.state = ev.preRain.state
     /\ rainObs[WeatherSnr].differSince = ev.preDifferSince
     /\ RainMsgs = <<>>

\* C30: while a rain sensor is Pending, an observation equal to the committed
\* state cancels the pending change and publishes nothing, and a change
\* commits only when the observations have differed for the full delay since
\* the first differing observation after that.
C30_ReversionCancels ==
  /\ (WasRainPending /\ ev.rain = Some(ev.preRain.state))
     => /\ Rain.state = ev.preRain.state
        /\ rainObs[WeatherSnr].differSince = None
        /\ RainMsgs = <<>>
  /\ (RainEvent /\ ev.preRain.present /\ Rain.state # ev.preRain.state)
     => /\ ev.preDifferSince # None
        /\ now - ev.preDifferSince[1] >= RainDelay(Rain.state)

(***************************************************************************)
(* The quantization as a function: the implementation of index.js, that of *)
(* modules/led.js and the three modes of part_002, applied to brightness   *)
(* values around 0..100.                                                   *)
(***************************************************************************)
\* modules/led.js: normalizeBrightness(v)
normalizeBrightness(v) ==
  IF ~IsNaN(v) /\ v[1] <= 0 THEN 0
  ELSE NormalizeFrom(v, 1, WAREMA_LED_STEPS[1], JsAbsDiff(v, WAREMA_LED_STEPS[1]))

\* [...WAREMA_LED_STEPS].sort((a, b) => a - b)
sorted == [i \in 1..Len(WAREMA_LED_STEPS) |-> WAREMA_LED_STEPS[Len(WAREMA_LED_STEPS) + 1 - i]]

RECURSIVE FloorFrom(_, _, _)
\* floor mode: for (const s of sorted) if (s <= val) result = s
FloorFrom(val, i, result) ==
  IF i > Len(sorted) THEN result
  ELSE FloorFrom(val, i + 1, IF sorted[i] <= val THEN sorted[i] ELSE result)

RECURSIVE CeilFrom(_, _)
\* ceil mode: for (const s of sorted) if (s >= val) return s
CeilFrom(val, i) ==
  IF i > Len(sorted) THEN sorted[Len(sorted)]
  ELSE IF sorted[i] >= val THEN sorted[i] ELSE CeilFrom(val, i + 1)

RECURSIVE NearestFrom(_, _, _, _)
\* nearest mode: the loop over sorted
NearestFrom(val, i, best, diff) ==
  IF i > Len(sorted) THEN best
  ELSE LET d == Abs(val - sorted[i])
       IN IF d < diff THEN NearestFrom(val, i + 1, sorted[i], d)
          ELSE NearestFrom(val, i + 1, best, diff)

\* part_002: normalizeWaremaBrightness(v) under LED_ROUND_MODE
normalizeWaremaBrightnessMode(v, LED_ROUND_MODE) ==
  LET val == Max(0, Min(100, v))
  IN IF val <= 0 THEN 0
     ELSE IF LED_ROUND_MODE = "floor" THEN FloorFrom(val, 1, sorted[1])
     ELSE IF LED_ROUND_MODE = "ceil" THEN CeilFrom(val, 1)
     ELSE NearestFrom(val, 1, sorted[1], Abs(val - sorted[1]))

Quantize ==
  /\ \E v \in (0 - QuantizeBelow)..(100 + QuantizeAbove) :
       ev' = [NoEvent EXCEPT
                !.kind = "quantize", !.position = Some(v),
                !.quantized = Some(
                  [nearest |-> normalizeWaremaBrightness(Num(v)),
                   again |-> normalizeWaremaBrightness(
                               Num(normalizeWaremaBrightness(Num(v)))),
                   led |-> normalizeBrightness(Num(v)),
                   sorted |-> normalizeWaremaBrightnessMode(v, "nearest"),
                   floor |-> normalizeWaremaBrightnessMode(v, "floor"),
                   floorAgain |-> normalizeWaremaBrightnessMode(
                                    normalizeWaremaBrightnessMode(v, "floor"), "floor"),
                   ceil |-> normalizeWaremaBrightnessMode(v, "ceil"),
                   ceilAgain |-> normalizeWaremaBrightnessMode(
                                   normalizeWaremaBrightnessMode(v, "ceil"), "ceil")])]
  /\ UNCHANGED <<now, devices, ledStateCache, ledStateFile, discoveryCache,
                 rawMessageCache, weatherStats, rainState, connected, mqttReady,
                 stickReady, systemReady, shuttingDown, weatherInterval, timers,
                 lastWeatherBroadcast, stickWeather, retained, pub, hw, rainObs>>

NextQuantize == Quantize

SpecQuantize == Init /\ [][NextQuantize]_vars

StepSet == {1 + 11 * k : k \in 0..9}
Distance(a, b) == IF a < b THEN b - a ELSE a - b

\* C31: a value <= 0 quantizes to 0; a value v in 1..100 quantizes to a step
\* of {1, 12, ..., 100} at minimal distance from v in nearest mode, to the
\* largest step <= v in floor mode and the smallest step >= v in ceil mode;
\* quantizing a result again returns it; and the nearest-mode
\* implementations agree on every integer 0..100.
C31_Quantization ==
  ev.kind = "quantize"
  => LET v == ev.position[1]
         q == ev.quantized[1]
     IN /\ v <= 0 => q.nearest = 0 /\ q.led = 0 /\ q.sorted = 0
                     /\ q.floor = 0 /\ q.ceil = 0
        /\ v \in 1..100
           => /\ q.nearest \in StepSet
              /\ \A s \in StepSet : Distance(v, q.nearest) <= Distance(v, s)
              /\ q.floor \in StepSet /\ q.floor <= v
              /\ \A s \in StepSet : s <= v => s <= q.floor
              /\ q.ceil \in StepSet /\ q.ceil >= v
              /\ \A s \in StepSet : s >= v => s >= q.ceil
        /\ q.again = q.nearest
        /\ q.floorAgain = q.floor
        /\ q.ceilAgain = q.ceil
        /\ v \in 0..100 => q.led = q.nearest /\ q.sorted = q.nearest

C31_Witness ==
  /\ ev.kind = "quantize"
  /\ ev.position = Some(17)
  /\ ev.quantized[1].nearest = 12
  /\ ev.quantized[1].floor = 12
  /\ ev.quantized[1].ceil = 23

\* C32: the snapshot is not written inside the event callback: when a
\* callback has changed the brightness to persist, the file still holds the
\* value from before, to be written once after the debounce window.
C32_SnapshotDeferred ==
  (/\ ev.kind \in {"position", "message"}
   /\ ev.snr = LedSnr
   /\ ledStateCache[LedSnr] # ev.preCache)
  => ledStateFile[LedSnr] = ev.preCache

(***************************************************************************)
(* Shutdown in its two parts: up to the await of client.end, and from the  *)
(* transport's close on.  Stick callbacks can run in between.              *)
(***************************************************************************)
\* shutdown(reason) up to await client.end(false, resolve)
shutdownBegin(w) ==
  IF w.shuttingDown THEN w
  ELSE LET w1 == [w EXCEPT !.shuttingDown = TRUE]
           w2 == IF w1.connected
                 THEN publishAvailability(publish(w1, BridgeTopic, "offline", TRUE),
                                          DeviceKeys(w1), "offline", 1)
                 ELSE w1
       IN [w2 EXCEPT !.weatherInterval = FALSE,
                     !.timers = IF w2.weatherInterval THEN @ - 1 ELSE @]

\* the transport has closed: the rest of shutdown(reason), and the exit
shutdownEnd(w, closable) ==
  LET w1 == onClose(w)
  IN IF closable THEN stick(w1, StickCmd("close", "", None, None)) ELSE w1

ShutdownBegin ==
  /\ ~shuttingDown
  /\ ev' = Event("shutdown", "")
  /\ Commit(shutdownBegin(World))
  /\ UNCHANGED <<now, rainObs>>

ShutdownEnd ==
  \E closable \in BOOLEAN :
    /\ shuttingDown
    /\ ev' = Event("exit", "")
    /\ Commit(shutdownEnd(World, closable))
    /\ UNCHANGED <<now, rainObs>>

\* the process handles events until it exits
Alive ==
  /\ ev.kind # "exit"
  /\ \/ MqttConnect
     \/ MqttClose
     \/ ScanDevice
     \/ BridgeFeedback
     \/ ShutdownBegin
     \/ ShutdownEnd

NextStopping == Alive

SpecStopping == Init /\ [][NextStopping]_vars

OnlineTopics == {BridgeTopic} \cup {AvailabilityTopic(snr) : snr \in Snrs}

\* C33: once shutdown has published offline on bridge/state, no callback
\* that runs while shutdown awaits the transport's close publishes online on
\* bridge/state or on an availability topic.
C33_OfflineStays ==
  (shuttingDown /\ connected)
  => \A i \in 1..Len(pub) :
       pub[i].topic \in OnlineTopics => pub[i].payload # "online"

\* C34: after any sequence of transport connects and closes at most one
\* weather-poll interval timer is active, the one the handle refers to, and
\* none is active once shutdown has run.
C34_OnePollTimer ==
  /\ timers \in {0, 1}
  /\ weatherInterval <=> timers = 1
  /\ shuttingDown => timers = 0

C34_Witness ==
  /\ ev.kind = "connect"
  /\ BridgeTopic \in DOMAIN retained
  /\ pub = <<>>
  /\ timers = 1

(***************************************************************************)
(* A device listed in IGNORED_DEVICES, scanned as an awning and as a       *)
(* weather station.                                                        *)
(***************************************************************************)
ScanIgnored ==
  \E element \in {[snr |-> IgnoredSnr, type |-> "25"],
                  [snr |-> IgnoredSnr, type |-> "63"],
                  [snr |-> LedSnr, type |-> "25"]} :
    ScannedDevices(<<element>>)

NextIgnored ==
  \/ MqttConnect
  \/ MqttClose
  \/ StickInit
  \/ ScanIgnored
  \/ Shutdown

SpecIgnored == Init /\ [][NextIgnored]_vars

IgnoredTopics ==
  {AvailabilityTopic(IgnoredSnr)}
    \cup {DiscoveryTopic(IgnoredSnr, type) : type \in {"20", "21", "24", "25", "28"}}
    \cup {SensorConfigTopics(IgnoredSnr)[i] : i \in 1..Len(SensorConfigTopics(IgnoredSnr))}

\* C35: a device listed in IGNORED_DEVICES is never in the registry; no
\* discovery payload and no availability message is published for it, at
\* registration, rebind or shutdown, and the stick is asked nothing about it.
C35_IgnoredNeverRegistered ==
  /\ ~devices[IgnoredSnr].present
  /\ \A i \in 1..Len(pub) : pub[i].topic \notin IgnoredTopics
  /\ \A i \in 1..Len(hw) : hw[i].snr # IgnoredSnr

(***************************************************************************)
(* Light commands addressed to a registered cover.                         *)
(***************************************************************************)
LightCommandToCover ==
  /\ ev.kind = "message"
  /\ ev.command \in {"light/set", "light/set_brightness"}
  /\ ev.pre.present
  /\ ev.pre.type \in {"24", "25"}

\* C36: a light/set or light/set_brightness message addressed to the id of
\* a registered cover leaves that device's kind unchanged.
C36_CommandKeepsKind ==
  LightCommandToCover => devices[ev.snr].type = ev.pre.type

(***************************************************************************)
(* lastPublish and the connection.                                         *)
(***************************************************************************)
\* the sensor has smoothed values that were never published
NeverPublished ==
  /\ ev.preStats.present
  /\ ev.preStats.wind # None
  /\ ev.preStats.lastPublish = 0

C38_RainPublishedAfterReconnect ==
  (/\ RainEvent
   /\ ev.preConnected
   /\ Rain.present)
  => /\ RainTopic(WeatherSnr) \in DOMAIN retained
     /\ retained[RainTopic(WeatherSnr)] = RainPayload(Rain.state)

(***************************************************************************)
(* Registration of a light and the restore of its brightness.              *)
(***************************************************************************)
LightRegistered ==
  /\ ev.kind = "scan"
  /\ ev.snr = LedSnr
  /\ ev.type = "28"

\* C39: registering a light and restoring its persisted brightness sends no
\* setPosition command to the stick and leaves the command lock inactive;
\* with a persisted brightness and a connected client the brightness and
\* the state are published.
C39_RestoreOnlyPublishes ==
  LightRegistered
  => /\ Attempts = <<>>
     /\ ~devices[LedSnr].commandActive
     /\ devices[LedSnr].commandTarget = None
     /\ (ev.preConnected /\ ev.preCache # None)
        => /\ devices[LedSnr].position = ev.preCache
           /\ retained[BrightnessTopic(LedSnr)] = ToString(ev.preCache[1])
           /\ retained[LightStateTopic(LedSnr)] = "ON"

C39_Witness ==
  /\ LightRegistered
  /\ ev.preConnected
  /\ ev.preCache # None
  /\ \E i \in 1..Len(pub) :
       pub[i] = Msg(BrightnessTopic(LedSnr), ToString(ev.preCache[1]), TRUE)
  /\ Attempts = <<>>

(***************************************************************************)
(* set_tilt and the position of the cover.                                 *)
(***************************************************************************)
TiltCommand ==
  /\ ev.kind = "message"
  /\ ev.command = "set_tilt"

\* C40: the setPosition command of a set_tilt message carries the position
\* the registry holds for the device, and no setPosition command is sent
\* when that position is not known.
C40_TiltKeepsPosition ==
  TiltCommand
  => IF ev.pre.position = None
     THEN Attempts = <<>>
     ELSE \A i \in 1..Len(Attempts) : Attempts[i].position = ev.pre.position

====
